---- MODULE Spec2Model ----
(***************************************************************************)
(* A model of the Z-model IFRS 9 expected-credit-loss engine               *)
(* (src/src/z_model): the write-off augmentation and the TTC -> PiT        *)
(* transform of the transition matrix, the stage-probability and ECL       *)
(* composition of one account, the scenario executor with its weighted     *)
(* composite, the license check and the command line entry points.         *)
(*                                                                         *)
(* Numbers.  The program computes in floating point.  The model computes   *)
(* in exact rational arithmetic: a number is a record [n, d] in lowest     *)
(* terms with d > 0; d = 0 encodes the IEEE values +inf (n > 0),           *)
(* -inf (n < 0) and NaN (n = 0).  Python's 0-based and negative indices    *)
(* are kept: a vector of length k is a function on 0..k-1.                 *)
(***************************************************************************)
EXTENDS Integers, Sequences, FiniteSets, TLC

-----------------------------------------------------------------------------
(* Exact rational arithmetic standing for numpy's float64.                 *)

Abs(x) == IF x < 0 THEN -x ELSE x

RECURSIVE GCD(_, _)
GCD(a, b) == IF b = 0 THEN a ELSE GCD(b, a % b)

Rat(n, d) ==
    IF d = 0 THEN [n |-> IF n > 0 THEN 1 ELSE IF n < 0 THEN -1 ELSE 0, d |-> 0]
    ELSE LET g == GCD(Abs(n), Abs(d))
             s == IF d < 0 THEN -1 ELSE 1
         IN  [n |-> s * (n \div g), d |-> s * (d \div g)]

R(k) == [n |-> k, d |-> 1]
Zero == R(0)
One == R(1)
PosInf == [n |-> 1, d |-> 0]
NaN == [n |-> 0, d |-> 0]

IsFinite(a) == a.d # 0
IsNaN(a) == a.d = 0 /\ a.n = 0
IsInf(a) == a.d = 0 /\ a.n # 0

RAdd(a, b) ==
    IF IsFinite(a) /\ IsFinite(b)
    THEN LET g == GCD(a.d, b.d)
         IN  Rat(a.n * (b.d \div g) + b.n * (a.d \div g), (a.d \div g) * b.d)
    ELSE IF IsNaN(a) \/ IsNaN(b) THEN NaN
    ELSE IF IsFinite(a) THEN b
    ELSE IF IsFinite(b) THEN a
    ELSE IF a.n = b.n THEN a ELSE NaN

RNeg(a) == [n |-> -a.n, d |-> a.d]
RSub(a, b) == RAdd(a, RNeg(b))

RMul(a, b) ==
    IF IsFinite(a) /\ IsFinite(b)
    THEN LET g == GCD(Abs(a.n), b.d)
             h == GCD(Abs(b.n), a.d)
         IN  Rat((a.n \div g) * (b.n \div h), (a.d \div h) * (b.d \div g))
    ELSE IF IsNaN(a) \/ IsNaN(b) \/ a.n = 0 \/ b.n = 0 THEN NaN
    ELSE Rat((IF a.n > 0 THEN 1 ELSE -1) * (IF b.n > 0 THEN 1 ELSE -1), 0)

\* float division as numpy does it on arrays: x/0 is +-inf, 0/0 is NaN
RDiv(a, b) ==
    IF IsFinite(a) /\ IsFinite(b)
    THEN IF b.n = 0 THEN Rat(a.n, 0)
         ELSE RMul(a, Rat(b.d, b.n))
    ELSE IF IsNaN(a) \/ IsNaN(b) THEN NaN
    ELSE IF IsFinite(a) THEN Zero
    ELSE IF IsFinite(b) THEN Rat(a.n * (IF b.n < 0 THEN -1 ELSE 1), 0)
    ELSE NaN

\* comparisons; any comparison with NaN is false, as in IEEE arithmetic
RLt(a, b) ==
    /\ ~IsNaN(a) /\ ~IsNaN(b)
    /\ IF IsFinite(a) /\ IsFinite(b) THEN RAdd(a, [n |-> -b.n, d |-> b.d]).n < 0
       ELSE IF IsFinite(a) THEN b.n > 0
       ELSE IF IsFinite(b) THEN a.n < 0
       ELSE a.n < b.n
RLeq(a, b) == ~IsNaN(a) /\ ~IsNaN(b) /\ (a = b \/ RLt(a, b))

RMax(a, b) == IF RLt(a, b) THEN b ELSE a

\* sum of the vector v (a function on 0..k-1) over the indices lo..hi
RSumRange(v, lo, hi) ==
    LET f[i \in (lo - 1)..hi] == IF i < lo THEN Zero ELSE RAdd(f[i - 1], v[i])
    IN  f[hi]

VecLen(v) == Cardinality(DOMAIN v)
RSum(v) == RSumRange(v, 0, VecLen(v) - 1)

\* an array as a table: the value v itself, computed once and for all
Array(v) == IF v = v THEN v ELSE v

\* a Python list literal as a 0-based vector
Vec(s) == [i \in 0..(Len(s) - 1) |-> s[i + 1]]
\* a matrix literal of integers over the common denominator den
Mat(rows, den) ==
    [i \in 0..(Len(rows) - 1) |-> [j \in 0..(Len(rows[i + 1]) - 1) |-> Rat(rows[i + 1][j + 1], den)]]

\* Python's index resolution for a length-k axis: a negative index counts from the end
PyIdx(k, i) == IF i < 0 THEN k + i ELSE i

-----------------------------------------------------------------------------
(* transition_matrix.py: write-off augmentation and the TTC -> PiT transform *)

NRows(m) == Cardinality(DOMAIN m)
NCols(m) == Cardinality(DOMAIN m[0])

Identity(k) == [i \in 0..(k - 1) |-> [j \in 0..(k - 1) |-> IF i = j THEN One ELSE Zero]]

\* a @ b
MatMul(a, b) ==
    Array([i \in DOMAIN a |-> [j \in DOMAIN b[0] |->
        RSum([k \in DOMAIN b |-> RMul(a[i][k], b[k][j])])]])

\* exp(-mu) for a whole mu >= 0.  The exponential is irrational; it is
\* represented in base 2 instead of e: mu |-> 2 ** -mu, which like exp(-mu) is 1
\* at mu = 0, strictly decreasing, positive for finite mu, 0 at mu = +inf and
\* turns sums into products.
ExpNeg(mu) == IF IsInf(mu) THEN Zero ELSE Rat(1, 2 ^ mu.n)

\* the one-month (survival, cure, write-off) probabilities of the default state
WriteOffRates(pcure, time_to_sale) ==
    LET \* w = 1 - s - c
        WriteOff(s, c) == [s |-> s, c |-> c, w |-> RSub(RSub(One, s), c)]
        \* c = (1 - s) * pcure
        Cure(s) == WriteOff(s, RMul(RSub(One, s), pcure))
        \* s = exp(-(mu_c + mu_w))
        Survival(mu_c, mu_w) == Cure(ExpNeg(RAdd(mu_c, mu_w)))
        \* mu_c = (mu_w - (1 - pcure) * mu_w) / (1 - pcure)
        ForceOfCure(mu_w) ==
            Survival(RDiv(RSub(mu_w, RMul(RSub(One, pcure), mu_w)), RSub(One, pcure)), mu_w)
    IN  \* mu_w = 1 / time_to_sale
        ForceOfCure(RDiv(One, R(time_to_sale)))

\* add_write_off without p[-1, -1] = 1: the write-off state is not absorbing
add_write_off_unabsorbed(x, pcure, cure_state, time_to_sale) ==
    LET k == NRows(x) + 1
        d == k - 2
        cs == PyIdx(k, cure_state)
        \* p[i, j] = v and p[i, j] = p[i, j] + v
        Set(p, i, j, v) == [p EXCEPT ![i][j] = v]
        Add(p, i, j, v) == [p EXCEPT ![i][j] = RAdd(p[i][j], v)]
        \* zeros((k, k)) with p[:-1, :-1] = x
        p0 == [i \in 0..(k - 1) |-> [j \in 0..(k - 1) |->
                  IF i < k - 1 /\ j < k - 1 THEN x[i][j] ELSE Zero]]
        \* the assignments to p[-2, -2], p[-2, cure_state], p[-2, -2] and p[-2, -1]
        Fill(r) ==
            Add(Add(Add(Set(p0, d, d, Zero), d, cs, r.c), d, d, r.s), d, k - 1, r.w)
    IN  Fill(WriteOffRates(pcure, time_to_sale))

add_write_off(x, pcure, cure_state, time_to_sale) ==
    LET k == NRows(x) + 1
        d == k - 2
        cs == PyIdx(k, cure_state)
        \* p[i, j] = v and p[i, j] = p[i, j] + v
        Set(p, i, j, v) == [p EXCEPT ![i][j] = v]
        Add(p, i, j, v) == [p EXCEPT ![i][j] = RAdd(p[i][j], v)]
        \* zeros((k, k)) with p[:-1, :-1] = x
        p0 == [i \in 0..(k - 1) |-> [j \in 0..(k - 1) |->
                  IF i < k - 1 /\ j < k - 1 THEN x[i][j] ELSE Zero]]
        \* the assignments to p[-2, -2], p[-2, cure_state], p[-2, -2], p[-2, -1]
        \* and p[-1, -1], in this order
        Fill(r) ==
            Set(Add(Add(Add(Set(p0, d, d, Zero), d, cs, r.c), d, d, r.s), d, k - 1, r.w),
                k - 1, k - 1, One)
    IN  Fill(WriteOffRates(pcure, time_to_sale))

\* make_monthly_matrix for a monthly input (frequency = 1) that has a generator:
\* gmWA leaves the generator logM(x) / 1 as it is and expM returns x
make_monthly_matrix(x, frequency, pcure, cure_state, time_to_sale) ==
    add_write_off(x, pcure, cure_state, time_to_sale)

\* standardise(x): x[x < 0] = 0; x = abs(x) / sum(abs(x), axis=1)
standardise(x) ==
    LET Normalise(clipped) ==
            [i \in DOMAIN x |-> [j \in DOMAIN x[i] |-> RDiv(clipped[i][j], RSum(clipped[i]))]]
    IN  Normalise([i \in DOMAIN x |-> [j \in DOMAIN x[i] |->
                      IF RLt(x[i][j], Zero) THEN Zero ELSE x[i][j]]])

\* cumsum(ttc, axis=1) without the two flips, then clipped into [0, 1]
CumulativeTTC_unflipped(ttc) ==
    [i \in DOMAIN ttc |-> [j \in DOMAIN ttc[i] |->
        LET c == RSumRange(ttc[i], 0, j)
        IN  IF RLt(One, c) THEN One ELSE IF RLt(c, Zero) THEN Zero ELSE c]]

\* flip(cumsum(flip(ttc, axis=1), axis=1), axis=1), then clipped into [0, 1]
CumulativeTTC(ttc) ==
    [i \in DOMAIN ttc |-> [j \in DOMAIN ttc[i] |->
        LET c == RSumRange(ttc[i], j, NCols(ttc) - 1)
        IN  IF RLt(One, c) THEN One ELSE IF RLt(c, Zero) THEN Zero ELSE c]]

(* The standard normal distribution.  norm.ppf and norm.cdf are irrational;  *)
(* the model keeps what the transform uses of them: cdf is non-decreasing     *)
(* from cdf(-inf) = 0 to cdf(+inf) = 1 and symmetric (cdf(-x) = 1 - cdf(x)),  *)
(* ppf(0) = -inf, ppf(1) = +inf and cdf(ppf(p)) = p on [0, 1].  It is         *)
(* represented by the distribution that is uniform on [-6/5, 6/5]; like      *)
(* the float64 normal it reaches 0 and 1 at finite scores.                    *)
NegInf == RNeg(PosInf)
ppf(p) ==
    IF p = Zero THEN NegInf
    ELSE IF p = One THEN PosInf
    ELSE RMul(Rat(12, 5), RSub(p, Rat(1, 2)))
cdf(x) ==
    IF IsNaN(x) THEN NaN
    ELSE IF x = PosInf THEN One
    ELSE IF x = NegInf THEN Zero
    ELSE LET c == RAdd(Rat(1, 2), RMul(Rat(5, 12), x))
         IN  IF RLt(One, c) THEN One ELSE IF RLt(c, Zero) THEN Zero ELSE c

\* q ** 0.5 for a rational q whose numerator and denominator are squares
Sqrt(q) ==
    Rat(CHOOSE k \in 0..q.n : k * k = q.n, CHOOSE k \in 1..q.d : k * k = q.d)

\* one monthly point-in-time matrix of METHOD-1 (the Z-shift)
PitMethod1(cttc, zt, rho, calibrated) ==
    LET k == NCols(cttc)
        default_distance(i, j) == ppf(cttc[i][j])
        shifted(i, j) == RSub(default_distance(i, j), RMul(R(zt), Sqrt(rho)))
        conditional(score) == IF calibrated THEN score ELSE RDiv(score, Sqrt(RSub(One, rho)))
        \* -diff(c, append=0)
        NegDiff(c) ==
            [i \in DOMAIN cttc |-> [j \in DOMAIN cttc[i] |->
                RNeg(RSub(IF j + 1 = k THEN Zero ELSE c[i][j + 1], c[i][j]))]]
    IN  NegDiff(Array([i \in DOMAIN cttc |-> [j \in DOMAIN cttc[i] |->
                          cdf(conditional(shifted(i, j)))]]))

\* one monthly point-in-time matrix of METHOD-2 (the default barrier)
PitMethod2(cttc, zt, rho, calibrated, default_state) ==
    LET k == NCols(cttc)
        conditional(score) == IF calibrated THEN score ELSE RDiv(score, Sqrt(RSub(One, rho)))
        \* pit_dd of a row whose distance to default is dd
        pit_dd(dd) == conditional(RAdd(dd, RMul(R(zt), Sqrt(rho))))
        \* subtract(B, DD, out=B, where=abs(B) != inf)
        BS(b, dd) == IF IsInf(b) THEN b ELSE RSub(b, dd)
        \* add(BS, pit_dd, out=BS, where=abs(BS) != inf)
        S(bs, dd) == IF IsInf(bs) THEN bs ELSE RAdd(bs, pit_dd(dd))
        \* DD = tile(B[:, default_state]), then cdf of the adjusted barriers
        Barrier(B) ==
            [i \in DOMAIN cttc |-> [j \in DOMAIN cttc[i] |->
                cdf(S(BS(B[i][j], B[i][PyIdx(k, default_state)]), B[i][PyIdx(k, default_state)]))]]
        \* diff(c, append=1)
        Diff(c) ==
            [i \in DOMAIN cttc |-> [j \in DOMAIN cttc[i] |->
                RSub(IF j + 1 = k THEN One ELSE c[i][j + 1], c[i][j])]]
    IN  Diff(Array(Barrier(Array([i \in DOMAIN cttc |-> [j \in DOMAIN cttc[i] |->
                                     RNeg(ppf(cttc[i][j]))]]))))

Methods == {"METHOD-1", "METHOD-2"}

\* a raised exception, as the value of the call that raised it
Raised(exception) == [raised |-> exception]
\* a returned value, where the call may raise instead
Returned(value) == [returned |-> value]

\* from_assumption with the default barrier as the else branch: any method
\* that is not METHOD-1 is run as METHOD-2
from_assumption_else(ttc_transition_matrix, rho, z, calibrated, default_state, method) ==
    LET pit(cttc, zt) ==
            IF method = "METHOD-1" THEN PitMethod1(cttc, zt, rho, calibrated)
            ELSE PitMethod2(cttc, zt, rho, calibrated, default_state)
        Series(cttc) == [x |-> [m \in DOMAIN z |-> pit(cttc, z[m])],
                         default_state |-> default_state]
        Cumulative(ttc) == Series(Array(CumulativeTTC(ttc)))
    IN  Cumulative(Array(standardise(ttc_transition_matrix)))

\* TransitionMatrix.from_assumption: the series of monthly matrices, one per
\* month of the Z series, or the ValueError raised for an unsupported method
from_assumption(ttc_transition_matrix, rho, z, calibrated, default_state, method) ==
    LET pit(cttc, zt) ==
            IF method = "METHOD-1" THEN PitMethod1(cttc, zt, rho, calibrated)
            ELSE PitMethod2(cttc, zt, rho, calibrated, default_state)
        Series(cttc) == [x |-> [m \in DOMAIN z |-> pit(cttc, z[m])],
                         default_state |-> default_state]
        Cumulative(ttc) == Series(Array(CumulativeTTC(ttc)))
    IN  IF method \in Methods
        THEN Cumulative(Array(standardise(ttc_transition_matrix)))
        ELSE Raised("ValueError")

\* TransitionMatrix.get_cumulative(idx, return_list=True): the running products
\* of [identity] + [the matrices of idx but the last], one per element of idx
get_cumulative(tm, idx) ==
    LET k == NRows(tm.x[idx[0]])
        x == [t \in DOMAIN idx |-> IF t = 0 THEN Identity(k) ELSE tm.x[idx[t - 1]]]
        prod[t \in DOMAIN idx] == IF t = 0 THEN x[0] ELSE MatMul(prod[t - 1], x[t])
    IN  Array([t \in DOMAIN idx |-> prod[t]])

-----------------------------------------------------------------------------
(* account.py, stage_map.py, stage_probability.py, probability_of_default.py *)

\* a missing value (pandas NA) of the integer column watchlist
NA == 0

\* Account.remaining_life_index: date_range(reporting_date, periods=remaining_life,
\* freq='M'); a date is the ordinal of its month end
remaining_life_index(account) ==
    [t \in 0..(account.remaining_life - 1) |-> account.reporting_date + t]

\* StageMap.from_dataframe: per origination rating r, for s in (1, 2, 3, 4) the
\* positions i of the columns whose cell in row r equals s
StageMap_from_dataframe(df) ==
    [r \in DOMAIN df |-> [k \in 0..3 |-> {i \in DOMAIN df[r] : df[r][i] = k + 1}]]

RECURSIVE RSumSet(_, _)
RSumSet(S, v) ==
    IF S = {} THEN Zero
    ELSE LET j == CHOOSE j \in S : TRUE IN RAdd(v[j], RSumSet(S \ {j}, v))

\* StageProbability.get_stage_probabilities: one row [1, 2, 3, wo] per element of idx
get_stage_probabilities(transition_matrix, stage_map, idx, origination_rating, current_rating) ==
    LET n_ratings == NRows(transition_matrix.x[idx[0]])
        origination_stage_map == stage_map[origination_rating]
        cum == get_cumulative(transition_matrix, idx)
        \* insert(cumulative_probabilities, 0, zeros(n_ratings), axis=0), then
        \* cumulative_probabilities[0, current_rating] = 1
        cumulative_probabilities ==
            [t \in 0..VecLen(idx) |->
                IF t = 0 THEN [j \in 0..(n_ratings - 1) |-> IF j = current_rating THEN One ELSE Zero]
                ELSE cum[t - 1][current_rating]]
        template == [t \in 0..VecLen(idx) |-> [stage \in 0..3 |->
                        RSumSet(origination_stage_map[stage], cumulative_probabilities[t])]]
    IN  Array([t \in DOMAIN idx |-> template[t]])

\* StageProbability.__getitem__ without sp.iloc[:time_in_watchlist] = 0
StageProbability_getitem_unzeroed(self, account) ==
    LET Override(sp) ==
            IF account.watchlist # NA
            THEN [t \in DOMAIN sp |->
                    IF t < self.time_in_watchlist
                    THEN [stage \in 0..3 |-> IF stage = account.watchlist - 1 THEN One ELSE sp[t][stage]]
                    ELSE sp[t]]
            ELSE sp
    IN  Override(get_stage_probabilities(self.transition_matrix, self.stage_map,
                     remaining_life_index(account), account.origination_rating,
                     account.current_rating))

\* StageProbability.__getitem__ with sp.iloc[:time_in_watchlist + 1]
StageProbability_getitem_inclusive(self, account) ==
    LET Override(sp) ==
            IF account.watchlist # NA
            THEN [t \in DOMAIN sp |->
                    IF t <= self.time_in_watchlist
                    THEN [stage \in 0..3 |-> IF stage = account.watchlist - 1 THEN One ELSE Zero]
                    ELSE sp[t]]
            ELSE sp
    IN  Override(get_stage_probabilities(self.transition_matrix, self.stage_map,
                     remaining_life_index(account), account.origination_rating,
                     account.current_rating))

\* StageProbability.__getitem__: the watchlist override of the first
\* time_in_watchlist rows (sp.iloc[:time_in_watchlist])
StageProbability_getitem(self, account) ==
    LET Override(sp) ==
            IF account.watchlist # NA
            THEN [t \in DOMAIN sp |->
                    IF t < self.time_in_watchlist
                    THEN [stage \in 0..3 |-> IF stage = account.watchlist - 1 THEN One ELSE Zero]
                    ELSE sp[t]]
            ELSE sp
    IN  Override(get_stage_probabilities(self.transition_matrix, self.stage_map,
                     remaining_life_index(account), account.origination_rating,
                     account.current_rating))

\* the marginal PD vector summed over every state instead of [:default_state]
ProbabilityOfDefault_getitem_unsliced(transition_matrix, account) ==
    LET idx == remaining_life_index(account)
        k == NRows(transition_matrix.x[idx[0]])
        ds == PyIdx(k, transition_matrix.default_state)
        cum == get_cumulative(transition_matrix, idx)
    IN  Array([t \in DOMAIN idx |->
            RSum([r \in 0..(k - 1) |->
                RMul(cum[t][account.current_rating][r], transition_matrix.x[idx[t]][r][ds])])])

\* TransitionMatrixProbabilityOfDefault.__getitem__: the marginal PD vector
ProbabilityOfDefault_getitem(transition_matrix, account) ==
    LET idx == remaining_life_index(account)
        k == NRows(transition_matrix.x[idx[0]])
        ds == PyIdx(k, transition_matrix.default_state)
        cum == get_cumulative(transition_matrix, idx)
    IN  Array([t \in DOMAIN idx |->
            RSum([r \in 0..(ds - 1) |->
                RMul(cum[t][account.current_rating][r], transition_matrix.x[idx[t]][r][ds])])])

-----------------------------------------------------------------------------
(* effective_interest_rate.py, exposure_at_default.py, loss_given_default.py *)

Upper(str) ==
    CASE str \in {"fixed", "Fixed", "FIXED"} -> "FIXED"
      [] str \in {"float", "Float", "FLOAT"} -> "FLOAT"
      [] OTHER -> str

\* (1 + r / f) ** (f / 12) - 1 for the monthly compounding frequency f = 12, the
\* only one whose power is rational
MonthlyRate(r, f) == RDiv(r, R(f))

\* (1 + b) ** (1 / 12) - 1: the twelfth root is irrational; it is represented by
\* b / 12, which like it is 0 at b = 0 and strictly increasing in b
MonthlyBaseRate(b) == RDiv(b, R(12))

\* EffectiveInterestRate.__getitem__ returns a Series for these types; for any
\* other it returns (does not raise) a ValueError object
ReturnsSeries(account) == Upper(account.interest_rate_type) \in {"FIXED", "FLOAT"}

\* EffectiveInterestRate.__getitem__: the monthly EIR vector
EffectiveInterestRate_getitem(base_rate, account) ==
    LET idx == remaining_life_index(account)
    IN  IF Upper(account.interest_rate_type) = "FIXED"
        THEN [t \in DOMAIN idx |-> MonthlyRate(account.fixed_rate, account.interest_rate_freq)]
        ELSE IF Upper(account.interest_rate_type) = "FLOAT"
        THEN [t \in DOMAIN idx |->
                RAdd(MonthlyRate(account.spread, account.interest_rate_freq),
                     MonthlyBaseRate(base_rate[idx[t]]))]
        ELSE "ValueError"

\* the EAD models of this model: CONSTANT and CCF
EADTypes == {"CONSTANT", "CCF"}

\* CCFExposureAtDefault.__getitem__ raises ValueError for any other method
CCFMethods == {"METHOD-1", "METHOD-2", "METHOD-3"}
ExposureAtDefault_raises(ead) == ead.type = "CCF" /\ ead.ccf_method \notin CCFMethods

\* ConstantExposureAtDefault.__getitem__ and CCFExposureAtDefault.__getitem__
ExposureAtDefault_getitem(ead, account) ==
    LET idx == remaining_life_index(account)
        v == IF ead.type = "CONSTANT"
             THEN RMul(account.outstanding_balance, ead.exposure_at_default)
             ELSE IF ead.ccf_method = "METHOD-1"
             THEN RMul(account.outstanding_balance, ead.ccf)
             ELSE IF ead.ccf_method = "METHOD-2"
             THEN RMul(account.limit, ead.ccf)
             ELSE RAdd(account.outstanding_balance,
                       RMul(RSub(account.limit, account.outstanding_balance), ead.ccf))
    IN  IF ExposureAtDefault_raises(ead) THEN Raised("ValueError")
        ELSE [t \in DOMAIN idx |-> v]

\* AmortisingExposureAtDefault.__init__; effective_interest_rate stands for the
\* Series effective_interest_rate[account]
AmortisingExposureAtDefault(effective_interest_rate, fixed_fees, fees_pct, prepayment_pct, default_penalty_pct, default_penalty_amt) ==
    [effective_interest_rate |-> effective_interest_rate, fixed_fees |-> fixed_fees,
     fees_pct |-> fees_pct, prepayment_pct |-> prepayment_pct,
     default_penalty_pct |-> default_penalty_pct, default_penalty_amt |-> default_penalty_amt]

\* ExposureAtDefault.from_assumptions, the branch of type AMORTISING: the two
\* default penalties are not passed and keep their defaults .0
ExposureAtDefault_from_assumptions_AMORTISING(assumptions, eir) ==
    AmortisingExposureAtDefault(eir, assumptions.fees_fixed, assumptions.fees_pct,
                                assumptions.prepayment_pct, Zero, Zero)

\* ceil(a) for a finite a
Ceil(a) == -((-a.n) \div a.d)

\* AmortisingExposureAtDefault.__getitem__ up to the penalties:
\* balance_t_pfees + arrears_t
AmortisingBalance(self, account) ==
    LET L == account.remaining_life
        T == 0..(L - 1)
        idx == remaining_life_index(account)
        \* cumsum(v * df_t0) / df_t0
        CumSumAt(v, df_t0) ==
            [i \in T |-> RDiv(RSumRange([j \in T |-> RMul(v[j], df_t0[j])], 0, i), df_t0[i])]
        minimum(a, b) == IF RLt(b, a) THEN b ELSE a
        \* cumprod(v)[i]
        cumprod(v, i) ==
            LET f[k \in 0..i] == IF k = 0 THEN v[0] ELSE RMul(f[k - 1], v[k]) IN f[i]
        \* arrears_t
        Arrears(df_t0, is_pmt_period, n_pmts, remaining_allowance) ==
            IF RLt(Zero, account.contractual_payment)
            THEN LET arrears(remaining_allowance_t) ==
                         CumSumAt([i \in T |->
                                      IF n_pmts[i] <= remaining_allowance_t /\ is_pmt_period[i] = 1
                                      THEN account.contractual_payment ELSE Zero], df_t0)
                     capped(arrears_t) == [i \in T |-> minimum(arrears_t[i], remaining_allowance)]
                 IN  capped(arrears(Ceil(RDiv(remaining_allowance, account.contractual_payment))))
            ELSE [i \in T |-> Zero]
        \* balance_t_pfees
        WithFees(df_t0, pmt, balance_t) ==
            LET added(fees_pct_amt) ==
                    [i \in T |-> RMax(RAdd(balance_t[i], fees_pct_amt[i]), Zero)]
            IN  added(CumSumAt([i \in T |-> RMul(RAdd(balance_t[i], pmt[i]), self.fees_pct)],
                               df_t0))
        Balance(df_t0, pmt) ==
            LET less(cum_cf_t) ==
                    WithFees(df_t0, pmt,
                             [i \in T |-> RSub(RDiv(account.outstanding_balance, df_t0[i]),
                                               cum_cf_t[i])])
            IN  less(CumSumAt([i \in T |->
                                  RSub(RMul(pmt[i], RAdd(One, self.prepayment_pct)),
                                       self.fixed_fees)], df_t0))
        Payments(df_t0, is_pmt_period) ==
            LET sum(balance_t_pfees, arrears_t) ==
                    [i \in T |-> RAdd(balance_t_pfees[i], arrears_t[i])]
            IN  sum(Balance(df_t0, [i \in T |-> RMul(account.contractual_payment,
                                                      R(is_pmt_period[i]))]),
                    Arrears(df_t0, is_pmt_period,
                            [i \in T |-> Cardinality({j \in 0..i : is_pmt_period[j] = 1})],
                            RMax(RSub(RMul(account.contractual_payment, R(3)),
                                      account.current_arrears), Zero)))
        Discounted(df_t0) ==
            Payments(df_t0,
                     Array([i \in T |->
                         IF /\ (L - (i + 1)) % (12 \div account.contractual_freq) = 0
                            /\ \/ account.payment_holiday_end_date = NA
                               \/ idx[i] >= account.payment_holiday_end_date
                         THEN 1 ELSE 0]))
    IN  Discounted(Array([i \in T |->
            RDiv(One, cumprod([j \in T |-> RAdd(One, self.effective_interest_rate[j])], i))]))

\* AmortisingExposureAtDefault.__getitem__
AmortisingExposureAtDefault_getitem(self, account) ==
    LET penalised(balance) ==
            [i \in DOMAIN balance |->
                RMax(RAdd(RMul(balance[i], RAdd(One, self.default_penalty_pct)),
                          self.default_penalty_amt), Zero)]
    IN  penalised(AmortisingBalance(self, account))

\* ConstantLossGivenDefault.__getitem__ and UnsecuredLossGivenDefault.__getitem__
LossGivenDefault_getitem(lgd, account) ==
    LET idx == remaining_life_index(account)
        v == IF lgd.type = "CONSTANT" THEN lgd.loss_given_default
             ELSE RAdd(RMul(lgd.probability_of_cure, lgd.loss_given_cure),
                       RMul(RSub(One, lgd.probability_of_cure), lgd.loss_given_write_off))
    IN  [t \in DOMAIN idx |-> v]

-----------------------------------------------------------------------------
(* ecl_model.py *)

\* cumprod(v)[t]
CumProd(v, t) ==
    LET f[i \in 0..t] == IF i = 0 THEN v[0] ELSE RMul(f[i - 1], v[i]) IN f[t]

\* v[::-1].cumsum()[::-1][t]: the sum of v over t..len-1
RevCumSum(v, t) == RSumRange(v, t, VecLen(v) - 1)

\* v.shift(-k)[t] with the last value in place of the missing ones
ShiftFill_ffill(v, k, t) == IF t + k \in DOMAIN v THEN v[t + k] ELSE v[VecLen(v) - 1]

\* v.shift(-k).fillna(0)[t]
ShiftFill(v, k, t) == IF t + k \in DOMAIN v THEN v[t + k] ELSE Zero

\* the exception ECLModel.__getitem__ raises for an account, "none" if it returns:
\* 1 + eir raises TypeError when eir is not a Series, then the EAD may raise
ECLModel_raises(self, account) ==
    IF ~ReturnsSeries(account) THEN "TypeError"
    ELSE IF ExposureAtDefault_raises(self.ead) THEN "ValueError"
    ELSE "none"

\* ECLModel.__getitem__: the account's result rows, one per element of
\* remaining_life_index; 1 + eir raises TypeError when eir is not a Series
ECLModel_getitem(self, account) ==
    LET idx == remaining_life_index(account)
        Result(df_t0, pd, pd_12m, cpd_12m, ead, lgd, stage_p, marginal_ecl,
               stage_1_ecl, stage_2_ecl, stage_3_ecl, exposure, ecl) ==
            [t \in DOMAIN idx |->
                [contract_id |-> account.contract_id,
                 T |-> t,
                 forecast_reporting_date |-> idx[t],
                 PD |-> pd[t], PD12m |-> pd_12m[t], LifetimePD |-> cpd_12m[t],
                 EAD |-> ead[t], LGD |-> lgd[t], DF |-> df_t0[t],
                 PS1 |-> stage_p[t][0], PS2 |-> stage_p[t][1], PS3 |-> stage_p[t][2],
                 PSWO |-> stage_p[t][3],
                 MarginalCR |-> marginal_ecl[t],
                 STAGE1 |-> stage_1_ecl[t], STAGE2 |-> stage_2_ecl[t],
                 STAGE3 |-> stage_3_ecl[t],
                 CR |-> RDiv(ecl[t], exposure[t]),
                 Exposure |-> exposure[t],
                 WriteOff |-> RMul(ead[t], stage_p[t][3]),
                 ECL |-> ecl[t]]]
        \* exposure and ecl from the stage conditional ECLs
        Expected(df_t0, pd, pd_12m, cpd_12m, ead, lgd, stage_p, marginal_ecl,
                 stage_1_ecl, stage_2_ecl, stage_3_ecl) ==
            Result(df_t0, pd, pd_12m, cpd_12m, ead, lgd, stage_p, marginal_ecl,
                   stage_1_ecl, stage_2_ecl, stage_3_ecl,
                   Array([t \in DOMAIN idx |->
                       RMul(ead[t], RAdd(RAdd(stage_p[t][0], stage_p[t][1]), stage_p[t][2]))]),
                   Array([t \in DOMAIN idx |->
                       RAdd(RAdd(RMul(stage_p[t][0], stage_1_ecl[t]),
                                 RMul(stage_p[t][1], stage_2_ecl[t])),
                            RMul(stage_p[t][2], stage_3_ecl[t]))]))
        \* stage_2_ecl, stage_1_ecl_t0 and stage_1_ecl from stage_2_ecl_t0
        Conditional(df_t, df_t0, pd, pd_12m, cpd_12m, ead, lgd, stage_p, marginal_ecl,
                    stage_3_ecl, stage_2_ecl_t0) ==
            Expected(df_t0, pd, pd_12m, cpd_12m, ead, lgd, stage_p, marginal_ecl,
                     Array([t \in DOMAIN idx |->
                         RMul(RSub(stage_2_ecl_t0[t], ShiftFill(stage_2_ecl_t0, 12, t)),
                              df_t[t])]),
                     Array([t \in DOMAIN idx |-> RMul(stage_2_ecl_t0[t], df_t[t])]),
                     stage_3_ecl)
        \* stage_3_ecl and stage_2_ecl_t0 from marginal_ecl
        Marginal(df_t, df_t0, pd, pd_12m, cpd_12m, ead, lgd, stage_p, marginal_ecl) ==
            Conditional(df_t, df_t0, pd, pd_12m, cpd_12m, ead, lgd, stage_p, marginal_ecl,
                        Array([t \in DOMAIN idx |-> RMul(ead[t], lgd[t])]),
                        Array([t \in DOMAIN idx |-> RevCumSum(marginal_ecl, t)]))
        \* pd_12m and marginal_ecl from the component vectors
        Components(df_t, df_t0, pd, cpd_12m, ead, lgd, stage_p) ==
            Marginal(df_t, df_t0, pd,
                     Array([t \in DOMAIN idx |-> RSub(cpd_12m[t], ShiftFill(cpd_12m, 12, t))]),
                     cpd_12m, ead, lgd, stage_p,
                     Array([t \in DOMAIN idx |->
                         RMul(RMul(RMul(pd[t], ead[t]), lgd[t]), df_t0[t])]))
        \* cpd_12m from pd, then ead, lgd and stage_p
        Discounted(df_t, df_t0, pd) ==
            Components(df_t, df_t0, pd,
                       Array([t \in DOMAIN idx |-> RevCumSum(pd, t)]),
                       ExposureAtDefault_getitem(self.ead, account),
                       LossGivenDefault_getitem(self.lgd, account),
                       StageProbability_getitem(self, account))
        \* df_t and df_t0 from 1 + eir, then pd
        Discount(onep) ==
            Discounted(Array([t \in DOMAIN idx |-> RDiv(CumProd(onep, t), onep[0])]),
                       Array([t \in DOMAIN idx |-> RDiv(One, CumProd(onep, t))]),
                       ProbabilityOfDefault_getitem(self.transition_matrix, account))
        Rate(eir) == Discount(Array([t \in DOMAIN idx |-> RAdd(One, eir[t])]))
    IN  IF ECLModel_raises(self, account) # "none"
        THEN Raised(ECLModel_raises(self, account))
        ELSE Rate(EffectiveInterestRate_getitem(self.base_rate, account))

PDTypes == {"TRANSITION_MATRIX"}
LGDTypes == {"CONSTANT", "UNSECURED"}

\* ECLModel.from_assumptions: the per-segment pipeline for one scenario, or the
\* ValueError raised when a component rejects its assumptions
ECLModel_from_assumptions(segment_assumptions, scenario) ==
    LET \* cls(sp, ead, pd, lgd, eir) over the transition matrix tm
        Components(tm) ==
            IF tm = Raised("ValueError") THEN Raised("ValueError")
            ELSE IF segment_assumptions.ead.type \notin EADTypes THEN Raised("ValueError")
            ELSE IF segment_assumptions.pd.type \notin PDTypes THEN Raised("ValueError")
            ELSE IF segment_assumptions.lgd.type \notin LGDTypes THEN Raised("ValueError")
            ELSE [transition_matrix |-> tm,
                  stage_map |-> segment_assumptions.stage_map,
                  time_in_watchlist |-> segment_assumptions.pd.time_in_watchlist,
                  ead |-> segment_assumptions.ead,
                  lgd |-> segment_assumptions.lgd,
                  base_rate |-> scenario[segment_assumptions.eir.base_rate]]
        \* tm = TransitionMatrix.from_assumption(ttc_transition_matrix=p, ...)
        PointInTime(p) ==
            Components(from_assumption(p, segment_assumptions.pd.rho,
                                       scenario[segment_assumptions.pd.z_index],
                                       segment_assumptions.pd.calibrated, -2,
                                       segment_assumptions.pd.method))
    IN  PointInTime(make_monthly_matrix(segment_assumptions.pd.transition_matrix,
                                        segment_assumptions.pd.frequency,
                                        segment_assumptions.lgd.probability_of_cure,
                                        segment_assumptions.pd.cure_state,
                                        segment_assumptions.lgd.time_to_sale))

-----------------------------------------------------------------------------
(* exeutor.py, scenarios.py: the scenario fan-out and the weighted composite *)
(* A result frame is the sequence of its rows.                               *)

\* the columns of ECLModel[account] other than the index columns
NumericColumns ==
    {"PD", "PD12m", "LifetimePD", "EAD", "LGD", "DF", "PS1", "PS2", "PS3", "PSWO",
     "MarginalCR", "STAGE1", "STAGE2", "STAGE3", "CR", "Exposure", "WriteOff", "ECL"}

\* pandas.concat of a list of frames
RECURSIVE Concat(_)
Concat(frames) == IF frames = <<>> THEN <<>> ELSE Head(frames) \o Concat(Tail(frames))

\* whether a call raised instead of returning
IsRaised(x) == x = Raised("ValueError") \/ x = Raised("TypeError")

\* Scenarios.from_dataframe groups the rows by SCENARIO, in sorted order of the
\* names; Scenarios.items follows that order
ScenarioNameOrder == <<"BASE", "DOWN", "UP", "weighted">>
Scenarios_items(self) == SelectSeq(ScenarioNameOrder, LAMBDA s : s \in DOMAIN self.x)

\* Scenarios.weights: the probability weight of each scenario by name
Scenarios_weights(self) == [s \in DOMAIN self.x |-> self.weight[s]]

\* run_scenario: the ECL rows of every account under one scenario, labelled with
\* the scenario name, or the exception raised on the way.  The climate-risk
\* scenario of the tuple is None when no climate-risk file is given and is then
\* not used by the pipeline.
run_scenario(args) ==
    LET scenario_name == args[1]
        scen == args[2]
        assump == args[4]
        data == args[5]
        label(row) == ("scenario" :> scenario_name) @@ row
        \* a segment_id without assumptions maps to NaN, and NaN[account] raises
        exception(ecl_models, i) ==
            IF data[i].segment_id \notin DOMAIN assump THEN "TypeError"
            ELSE ECLModel_raises(ecl_models[data[i].segment_id], data[i])
        first(failed) == CHOOSE i \in failed : \A j \in failed : i <= j
        Frames(ECL) ==
            Returned(Concat([i \in DOMAIN data |->
                [k \in 1..VecLen(ECL[i]) |-> label(ECL[i][k - 1])]]))
        Accounts(ecl_models, failed) ==
            IF \E s \in DOMAIN assump : IsRaised(ecl_models[s]) THEN Raised("ValueError")
            ELSE IF failed # {} THEN Raised(exception(ecl_models, first(failed)))
            ELSE Frames(Array([i \in DOMAIN data |->
                     ECLModel_getitem(ecl_models[data[i].segment_id], data[i])]))
        Models(ecl_models) ==
            Accounts(ecl_models, {i \in DOMAIN data : exception(ecl_models, i) # "none"})
    IN  Models(Array([segment_id \in DOMAIN assump |->
                         ECLModel_from_assumptions(assump[segment_id], scen)]))

\* the arrays of the shared inputs: a segment's TTC transition matrix, the
\* scenario's series and the frame of the account data
SharedArrays == {"pd.transition_matrix", "scenario[z_index]", "account_data.data"}

\* what the array names of run_scenario are bound to.  A parameter and a view
\* are the array they are given; zeros() and reset_index() make new arrays.
\* x of gmWA is the x of make_monthly_matrix (gmWA works on Q = logM(x) / t, a
\* new array), p of add_write_off is zeros(...), x of standardise is
\* ttc_transition_matrix, and zt is a view of the values of z.
TransitionMatrixBinding ==
    ("x@gmWA" :> "x@make_monthly_matrix")
    @@ ("p@add_write_off" :> "new")
    @@ ("x@standardise" :> "ttc_transition_matrix")
    @@ ("zt" :> "z")

\* ECLModel.from_assumptions passes the segment's transition matrix as x, the
\* p that add_write_off returns as ttc_transition_matrix, and the scenario's
\* series as z
ECLModelBinding ==
    ("x@make_monthly_matrix" :> "pd.transition_matrix")
    @@ ("ttc_transition_matrix" :> "p@add_write_off")
    @@ ("z" :> "scenario[z_index]")

\* data = account_data.data without reset_index(): the frame itself
RunScenarioBinding_no_reset_index == "data" :> "account_data.data"

\* data = account_data.data.reset_index(), a new frame
RunScenarioBinding == "data" :> "new"

Binding == ECLModelBinding @@ TransitionMatrixBinding @@ RunScenarioBinding

\* the array a name stands for
RECURSIVE Resolve(_)
Resolve(name) == IF name \in DOMAIN Binding THEN Resolve(Binding[name]) ELSE name

\* the names run_scenario assigns into in place, in program order: p[...] = ...
\* in add_write_off, x[x < 0] = 0 in standardise, data[...] = ... in
\* run_scenario.  The other in-place writes of the run (Q in gmWA, cttc, B and
\* BS in from_assumption, x_new, cumulative_probabilities and sp in
\* StageProbability, marginal_s in Survival, rs in run_scenario) go into an
\* array that arithmetic, zeros() or concat() has just returned.
InPlaceWrites == <<"p@add_write_off", "x@standardise", "data">>

\* p[-2, -2] = 0 ... p[-1, -1] = 1 of add_write_off on the array p stands for
add_write_off_assign(p, pcure, cure_state, time_to_sale) ==
    LET k == NRows(p)
        d == k - 2
        cs == PyIdx(k, cure_state)
        Set(q, i, j, v) == [q EXCEPT ![i][j] = v]
        Add(q, i, j, v) == [q EXCEPT ![i][j] = RAdd(q[i][j], v)]
        Fill(rates) ==
            Set(Add(Add(Add(Set(p, d, d, Zero), d, cs, rates.c), d, d, rates.s), d, k - 1,
                    rates.w),
                k - 1, k - 1, One)
    IN  Fill(WriteOffRates(pcure, time_to_sale))

\* the content of an array after the in-place write through name; context is
\* the segment's assumptions for the matrices
Write(name, value, context) ==
    CASE name = "p@add_write_off" ->
             add_write_off_assign(value, context.lgd.probability_of_cure,
                                  context.pd.cure_state, context.lgd.time_to_sale)
      [] name = "x@standardise" ->
             [i \in DOMAIN value |-> [j \in DOMAIN value[i] |->
                 IF RLt(value[i][j], Zero) THEN Zero ELSE value[i][j]]]
      [] name = "data" ->
             \* the columns 'Account()', 'ECLModel()' and 'ECL()': the objects
             \* in their cells are named by the row, the segment and the contract
             [i \in DOMAIN value |->
                 ("Account()" :> value[i]) @@ ("ECLModel()" :> value[i].segment_id)
                 @@ ("ECL()" :> value[i].contract_id) @@ value[i]]

\* the content of a shared array after the in-place writes that land on it
RECURSIVE Written(_, _, _)
Written(names, value, context) ==
    IF names = <<>> THEN value
    ELSE Written(Tail(names), Write(Head(names), value, context), context)
Landed(array) == SelectSeq(InPlaceWrites, LAMBDA name : Resolve(name) = array)

\* the shared inputs after run_scenario(args)
run_scenario_shared(args) ==
    [assumptions |->
        [segment_id \in DOMAIN args[4] |->
            [args[4][segment_id] EXCEPT !.pd.transition_matrix =
                Written(Landed("pd.transition_matrix"), @, args[4][segment_id])]],
     scenario |->
        [z_index \in DOMAIN args[2] |-> Written(Landed("scenario[z_index]"), args[2][z_index], "None")],
     account_data |-> Written(Landed("account_data.data"), args[5], "None")]

\* the group key of the weighted composite
Key(row) == <<row.contract_id, row.T, row.forecast_reporting_date>>

\* DataFrame.groupby(...).sum() of one column over the rows of one group: NaN
\* values are skipped
RECURSIVE SumSkipNa(_, _, _)
SumSkipNa(data, rows, column) ==
    IF rows = {} THEN Zero
    ELSE LET i == CHOOSE k \in rows : \A j \in rows : k <= j
             rest == SumSkipNa(data, rows \ {i}, column)
         IN  IF IsNaN(data[i][column]) THEN rest ELSE RAdd(data[i][column], rest)

\* the sorted order of groupby over (contract_id, T, forecast_reporting_date);
\* contract ids are ordered as strings
ContractIdOrder == <<"A", "B">>
Rank(contract_id) == CHOOSE i \in DOMAIN ContractIdOrder : ContractIdOrder[i] = contract_id
KeyBefore(a, b) ==
    \/ Rank(a[1]) < Rank(b[1])
    \/ a[1] = b[1] /\ a[2] < b[2]
    \/ a[1] = b[1] /\ a[2] = b[2] /\ a[3] < b[3]
RECURSIVE SortKeys(_)
SortKeys(keys) ==
    IF keys = {} THEN <<>>
    ELSE LET k == CHOOSE a \in keys : \A b \in keys \ {a} : KeyBefore(a, b)
         IN  <<k>> \o SortKeys(keys \ {k})

\* calculate_weighted_scenario: every scenario's rows times the scenario's
\* weight, summed per (contract_id, T, forecast_reporting_date) and labelled
\* 'weighted'; weights.get gives None, and the product raises, for a scenario
\* without a weight
calculate_weighted_scenario(data, weights) ==
    LET group(k) == {i \in DOMAIN data : Key(data[i]) = k}
        \* groupby(...).sum() and assign(scenario='weighted')
        Sum(weighted_data, keys) ==
            Returned([n \in DOMAIN keys |->
                [c \in NumericColumns |-> SumSkipNa(weighted_data, group(keys[n]), c)]
                @@ [scenario |-> "weighted", contract_id |-> keys[n][1], T |-> keys[n][2],
                    forecast_reporting_date |-> keys[n][3]]])
    IN  IF \E i \in DOMAIN data : data[i].scenario \notin DOMAIN weights
        THEN Raised("TypeError")
        ELSE Sum(Array([i \in DOMAIN data |->
                     [c \in DOMAIN data[i] |->
                        IF c \in NumericColumns
                        THEN RMul(data[i][c], weights[data[i].scenario])
                        ELSE data[i][c]]]),
                 SortKeys({Key(data[i]) : i \in DOMAIN data}))

\* the execution methods of Methods.executor
ExecutorMethods == {"map", "thread_map", "process_map"}

\* Executor.execute after the scenarios have run: r is the list of their frames
\* in the order of scenarios.items().  Every account has at least one row per
\* scenario, so the left merge on contract_id adds the account's columns to
\* each of its rows.
Executor_execute(data, scens, r) ==
    LET \* the rows of one account with the account's columns
        Own(own, i) == [k \in DOMAIN own |-> own[k] @@ data[i]]
        \* data.merge(rc, how='left', on='contract_id')
        Merge(rc) ==
            Returned(Concat([i \in DOMAIN data |->
                Own(SelectSeq(rc, LAMBDA row : row.contract_id = data[i].contract_id), i)]))
        Weighted(rs, weighted_scenario) ==
            IF IsRaised(weighted_scenario) THEN weighted_scenario
            ELSE Merge(rs \o weighted_scenario.returned)
        Results(rs) == Weighted(rs, calculate_weighted_scenario(rs, Scenarios_weights(scens)))
    IN  Results(Concat(r))

\* range(start, stop, step) with a positive step: start, start + step, ... below stop
RECURSIVE range(_, _, _)
range(start, stop, step) ==
    IF start >= stop THEN <<>> ELSE <<start>> \o range(start + step, stop, step)

\* AccountData.offset: the accounts with the reporting date moved on by offset months
AccountData_offset(self, offset) ==
    [i \in DOMAIN self |-> [self[i] EXCEPT !.reporting_date = @ + offset]]

\* step_and_execute of dynamic_balance_sheet_forecast: Executor(method).execute
\* on the account data moved on by the offset; an exception of a scenario or
\* of the weighting comes out of execute
step_and_execute(args) ==
    LET items == Scenarios_items(args[3])
        Execute(data, rs) ==
            IF \E i \in DOMAIN rs : IsRaised(rs[i])
            THEN rs[CHOOSE i \in DOMAIN rs :
                       IsRaised(rs[i]) /\ \A j \in 1..(i - 1) : ~IsRaised(rs[j])]
            ELSE Executor_execute(data, args[3], [i \in DOMAIN rs |-> rs[i].returned])
        Run(data) ==
            Execute(data, Array([i \in DOMAIN items |->
                run_scenario(<<items[i], args[3].x[items[i]], "None", args[2], data>>)]))
    IN  Run(AccountData_offset(args[1], args[5]))

\* Results.__add__: the rows of both
Results_add(self, other) == self \o other

\* reduce(__add__, results): TypeError for an empty list
RECURSIVE reduce_add(_)
reduce_add(steps) ==
    IF steps = <<>> THEN Raised("TypeError")
    ELSE IF Len(steps) = 1 THEN Returned(steps[1])
    ELSE Returned(Results_add(reduce_add(SubSeq(steps, 1, Len(steps) - 1)).returned,
                              steps[Len(steps)]))

-----------------------------------------------------------------------------
(* license.py, __main__.py: the license check and the command line            *)
(* An RSA signature is the record of what was signed, with which key and      *)
(* which hash; base64 text that is no signature is "garbage".  A date is the  *)
(* ordinal of its day.                                                        *)

HASH_METHOD == "SHA-1"

\* date.fromisoformat: the date of an ISO string, ValueError for any other string
fromisoformat(date_string) ==
    CASE date_string = "2024-01-30" -> Returned(30)
      [] date_string = "2024-01-31" -> Returned(31)
      [] date_string = "2024-02-01" -> Returned(32)
      [] OTHER -> Raised("ValueError")

\* json.dumps(information).encode(): the serialisation keeps every key and value
\* in order, so two dictionaries give the same bytes only if they are equal
dumps(information) == <<"json", information>>

\* rsa.sign(message, priv_key, hash_method) and b64encode
sign(msg, sign_key, hash_method) == [message |-> msg, key |-> sign_key, hash |-> hash_method]

\* text that is not the base64 of any signature
Garbage == [garbage |-> TRUE]

\* rsa.verify(message, b64decode(signature), pub_key): the name of the hash
\* the signature was made with; VerificationError when the signature is not
\* one of the message by the key pair of pub_key; NameError when the
\* verification key was never loaded
verify(msg, signature, pub_key) ==
    IF pub_key = "undefined" THEN Raised("NameError")
    ELSE IF signature = Garbage THEN Raised("VerificationError")
    ELSE IF signature.key # pub_key \/ signature.message # msg THEN Raised("VerificationError")
    ELSE Returned(signature.hash)

\* License.create_license
License_create_license(information, sign_key) ==
    [information |-> information, signature |-> sign(dumps(information), sign_key, HASH_METHOD)]

\* License.is_valid, with a license that expires today already expired
License_is_valid_strict(self, verify_key, date_today) ==
    LET expiration_date_str == IF "expiration_date" \in DOMAIN self.information
                               THEN self.information.expiration_date ELSE ""
        expiration_date == fromisoformat(expiration_date_str)
        verified == verify(dumps(self.information), self.signature, verify_key)
    IN  IF expiration_date_str # "" /\ expiration_date = Raised("ValueError") THEN FALSE
        ELSE IF expiration_date_str # "" /\ expiration_date.returned <= date_today THEN FALSE
        ELSE verified = Returned(HASH_METHOD)

\* License.is_valid: the expiry check, then the signature check; every
\* exception on the way is caught and gives False
License_is_valid(self, verify_key, date_today) ==
    LET expiration_date_str == IF "expiration_date" \in DOMAIN self.information
                               THEN self.information.expiration_date ELSE ""
        expiration_date == fromisoformat(expiration_date_str)
        verified == verify(dumps(self.information), self.signature, verify_key)
    IN  IF expiration_date_str # "" /\ expiration_date = Raised("ValueError") THEN FALSE
        ELSE IF expiration_date_str # "" /\ expiration_date.returned < date_today THEN FALSE
        ELSE verified = Returned(HASH_METHOD)

\* the exit status of the process: typer returns 0 when the command returns and
\* the interpreter 1 when the command's exception propagates
ExitStatus(raised) == IF raised THEN 1 ELSE 0

-----------------------------------------------------------------------------
(* climate_risk_scenarios.py: the climate risk value adjustment *)

\* the elements of a set of numbers in increasing order, as a vector
Ascending(S) ==
    [k \in 0..(Cardinality(S) - 1) |-> CHOOSE x \in S : Cardinality({y \in S : y < x}) = k]

\* ClimateRiskScenario._interpolate on the rows of one key: per outcome (index)
\* the months from its first to its last date, each with the mean of the
\* month's rows or the linear interpolation between the months that have rows;
\* then the probabilities of a month divided by their sum over the outcomes
ClimateRiskScenario_interpolate(data) ==
    LET dates(g) == {data[i].date : i \in {j \in DOMAIN data : data[j].index = g}}
        first(g) == CHOOSE d \in dates(g) : \A e \in dates(g) : d <= e
        last(g) == CHOOSE d \in dates(g) : \A e \in dates(g) : e <= d
        Mean(rows, column) ==
            RDiv(RSum([k \in 0..(Len(rows) - 1) |-> rows[k + 1][column]]), R(Len(rows)))
        \* resample('M').mean()
        mean(g, d, column) ==
            Mean(SelectSeq(data, LAMBDA row : row.index = g /\ row.date = d), column)
        Linear(g, d, column, b, a) ==
            RAdd(mean(g, b, column),
                 RMul(RSub(mean(g, a, column), mean(g, b, column)), Rat(d - b, a - b)))
        \* interpolate()
        linear(g, d, column) ==
            IF d \in dates(g) THEN mean(g, d, column)
            ELSE Linear(g, d, column,
                        CHOOSE b \in dates(g) : b < d /\ \A e \in dates(g) : e < d => e <= b,
                        CHOOSE a \in dates(g) : a > d /\ \A e \in dates(g) : e > d => a <= e)
        index == Ascending({data[i].index : i \in DOMAIN data})
        total(d) ==
            RSum([k \in DOMAIN index |->
                    IF d \in first(index[k])..last(index[k])
                    THEN linear(index[k], d, "probability") ELSE Zero])
    IN  [index |-> index,
         date |-> UNION {first(index[k])..last(index[k]) : k \in DOMAIN index},
         value |-> [k \in DOMAIN index |-> [d \in first(index[k])..last(index[k]) |->
                       linear(index[k], d, "value")]],
         probability |-> [k \in DOMAIN index |-> [d \in first(index[k])..last(index[k]) |->
                       RDiv(linear(index[k], d, "probability"), total(d))]]]

\* ClimateRiskScenario.__getitem__ without the except clause: the KeyError of
\* a key or a date that is not there leaves the call
ClimateRiskScenario_getitem_uncaught(self, item) ==
    LET date_range == item[2]
        \* pivot(index=['date'], columns=['index']): NaN where an outcome has no such month
        cell(column, d) == [k \in DOMAIN column |-> IF d \in DOMAIN column[k] THEN column[k][d] ELSE NaN]
        Filter(data_expanded) ==
            IF \E t \in DOMAIN date_range : date_range[t] \notin data_expanded.date
            THEN Raised("KeyError")
            ELSE Returned([value |-> [t \in DOMAIN date_range |->
                                        cell(data_expanded.value, date_range[t])],
                           probability |-> [t \in DOMAIN date_range |->
                                        cell(data_expanded.probability, date_range[t])]])
        Loc(account_data) ==
            IF account_data = <<>> THEN Raised("KeyError")
            ELSE IF Len(account_data) = 1 THEN Raised("AttributeError")
            ELSE Filter(Array(ClimateRiskScenario_interpolate(account_data)))
    IN  Loc(SelectSeq(self, LAMBDA row : row.key = item[1]))

\* ClimateRiskScenario.__getitem__ for item = (key, date_range): the values and
\* the probabilities of the outcomes, one row per date of the range.  A key or
\* a date that is not in the data raises KeyError, which is caught: the value is
\* [[0]] with probability [[1]].  A key with one row only gives a Series, which
\* has no set_index: AttributeError.
ClimateRiskScenario_getitem(self, item) ==
    LET date_range == item[2]
        zero == Returned([value |-> [t \in 0..0 |-> [k \in 0..0 |-> Zero]],
                          probability |-> [t \in 0..0 |-> [k \in 0..0 |-> One]]])
        \* pivot(index=['date'], columns=['index']): NaN where an outcome has no such month
        cell(column, d) == [k \in DOMAIN column |-> IF d \in DOMAIN column[k] THEN column[k][d] ELSE NaN]
        Filter(data_expanded) ==
            IF \E t \in DOMAIN date_range : date_range[t] \notin data_expanded.date
            THEN zero
            ELSE Returned([value |-> [t \in DOMAIN date_range |->
                                        cell(data_expanded.value, date_range[t])],
                           probability |-> [t \in DOMAIN date_range |->
                                        cell(data_expanded.probability, date_range[t])]])
        Loc(account_data) ==
            IF account_data = <<>> THEN zero
            ELSE IF Len(account_data) = 1 THEN Raised("AttributeError")
            ELSE Filter(Array(ClimateRiskScenario_interpolate(account_data)))
    IN  Loc(SelectSeq(self, LAMBDA row : row.key = item[1]))

\* ClimateRiskValueAdjustment._moment_generating_function(t), t = 1 or 2:
\* ((value ** t) * probability).sum(axis=1)
moment_generating_function(self, t) ==
    [i \in DOMAIN self.value |->
        RSum([k \in DOMAIN self.value[i] |->
                RMul(IF t = 1 THEN self.value[i][k]
                     ELSE RMul(self.value[i][k], self.value[i][k]),
                     self.probability[i][k])])]
expected_value(self) == moment_generating_function(self, 1)
variance(self) ==
    [i \in DOMAIN self.value |->
        RSub(moment_generating_function(self, 2)[i],
             RMul(expected_value(self)[i], expected_value(self)[i]))]

-----------------------------------------------------------------------------
(* transition_matrix.py: the generator of a matrix and its WA regularisation. *)
(* A matrix is given by its eigenvalue decomposition, which is what eig       *)
(* returns for it.  The logarithm is irrational; it is taken to the base 2    *)
(* (log 2 ** -k = -k), which differs from the natural logarithm by the        *)
(* positive factor ln 2 in every entry of the generator.                      *)

\* the smallest eigenvalue other than 0 is 2 ** -MaxLogExponent
MaxLogExponent == 4

\* e_vector @ diag(d) @ inv(e_vector) for a 3 x 3 matrix e_vector with a
\* determinant other than 0
FromEigen(d, e_vector) ==
    LET diag(v) == [i \in DOMAIN v |-> [j \in DOMAIN v |-> IF i = j THEN v[i] ELSE Zero]]
        inv(m) ==
            LET cofactor(i, j) ==
                    RSub(RMul(m[(j + 1) % 3][(i + 1) % 3], m[(j + 2) % 3][(i + 2) % 3]),
                         RMul(m[(j + 1) % 3][(i + 2) % 3], m[(j + 2) % 3][(i + 1) % 3]))
                scaled(adj) ==
                    LET over(det) == [i \in 0..2 |-> [j \in 0..2 |-> RDiv(adj[i][j], det)]]
                    IN  over(RSum([j \in 0..2 |-> RMul(m[0][j], adj[j][0])]))
            IN  scaled(Array([i \in 0..2 |-> [j \in 0..2 |-> cofactor(i, j)]]))
    IN  MatMul(MatMul(e_vector, diag(d)), inv(e_vector))

\* logM(x) for eig(x) = (e_value, e_vector)
logM(e_value, e_vector) ==
    LET \* log(a) for a = 2 ** -k, and log(0) = -inf
        Log(a) == IF a = Zero THEN NegInf
                  ELSE R(-(CHOOSE k \in 0..MaxLogExponent : 2 ^ k = a.d))
    IN  FromEigen([k \in DOMAIN e_value |-> Log(e_value[k])], e_vector)

\* gmWA(x, t) for eig(x) = (e_value, e_vector)
gmWA(e_value, e_vector, t) ==
    LET \* a * (a < 0) and a * (a > 0)
        negative(a) == RMul(a, IF RLt(a, Zero) THEN One ELSE Zero)
        positive(a) == RMul(a, IF RLt(Zero, a) THEN One ELSE Zero)
        \* row i after Q[i, j != i] = Q[i, j != i] - w * Q[i, j != i]
        weighted(row, i, w) ==
            [j \in DOMAIN row |-> IF j = i THEN row[j] ELSE RSub(row[j], RMul(w, row[j]))]
        adjusted(row, i, QiNeg, QiPos) ==
            weighted(row, i, IF QiNeg # Zero /\ QiPos # Zero THEN RDiv(QiNeg, QiPos) ELSE Zero)
        loop(Q) ==
            [i \in DOMAIN Q |->
                adjusted(Q[i], i,
                         RNeg(RSumSet(DOMAIN Q \ {i}, [j \in DOMAIN Q |-> negative(Q[i][j])])),
                         RSum([j \in DOMAIN Q |-> positive(Q[i][j])]))]
        \* diag(diag(Q)) + Q * (Q > 0)
        result(Q) ==
            [i \in DOMAIN Q |-> [j \in DOMAIN Q |->
                RAdd(IF i = j THEN Q[i][i] ELSE Zero, positive(Q[i][j]))]]
        divided(Q) == Array([i \in DOMAIN Q |-> [j \in DOMAIN Q |-> RDiv(Q[i][j], R(t))]])
    IN  result(Array(loop(divided(logM(e_value, e_vector)))))

-----------------------------------------------------------------------------
(* The inputs: assumptions, scenarios and accounts                           *)

\* the longest remaining life (in months) of an account
MaxLife == 3
\* the longest remaining life, in months, of the series the 12-month sums are
\* taken of
MaxHorizon == 14

\* monthly TTC matrices over the ratings 0, 1 and the default state 2, in quarters
TTC_CLEAN == Mat(<< <<3, 1, 0>>, <<1, 2, 1>>, <<0, 0, 4>> >>, 4)
TTC_DIRTY == Mat(<< <<2, 1, 1>>, <<1, 2, 1>>, <<4, 0, 0>> >>, 4)
TTC_RISKY == Mat(<< <<0, 0, 4>>, <<1, 1, 2>>, <<0, 0, 4>> >>, 4)
TTCMatrices == {TTC_CLEAN, TTC_DIRTY, TTC_RISKY}

\* the write-off state of the augmented matrix of a segment
WOState(seg) == NRows(seg.pd.transition_matrix)

\* STAGE_MAP sheets: one row of cells per origination rating, one cell per column
STAGE_MAP_ALL == [r \in 0..1 |-> IF r = 0 THEN Vec(<<1, 2, 3, 4>>) ELSE Vec(<<1, 1, 3, 4>>)]
STAGE_MAP_NO_WO == [r \in 0..1 |-> IF r = 0 THEN Vec(<<1, 2, 3>>) ELSE Vec(<<1, 1, 3>>)]
STAGE_MAP_D4 == [r \in 0..1 |-> IF r = 0 THEN Vec(<<1, 2, 4>>) ELSE Vec(<<1, 1, 4>>)]
StageMapSheets == {STAGE_MAP_ALL, STAGE_MAP_NO_WO, STAGE_MAP_D4}

\* the macro-economic series of a scenario over the months 0, 1, ...: the
\* credit-cycle index Z and the base rate per year
Months == 0..MaxLife
ZFlat == [m \in Months |-> 0]
ZCycle == [m \in Months |-> IF m % 3 = 0 THEN 1 ELSE IF m % 3 = 1 THEN -1 ELSE 0]
MakeScenario(z, b) == [Z |-> z, BASE |-> [m \in Months |-> R(b)]]
ScenarioSet == {MakeScenario(ZFlat, 0), MakeScenario(ZCycle, 12)}

PDAssumptionsSet ==
    [type : {"TRANSITION_MATRIX"}, z_index : {"Z"},
     rho : {Zero, Rat(9, 25)}, calibrated : BOOLEAN,
     cure_state : {0}, frequency : {1}, time_in_watchlist : {1, 2},
     transition_matrix : TTCMatrices, method : Methods]

LGDAssumptionsSet ==
    [type : {"CONSTANT"}, loss_given_default : {One},
     probability_of_cure : {Zero, Rat(1, 2)}, loss_given_cure : {Zero},
     loss_given_write_off : {One}, time_to_sale : {1}]

EADAssumptionsSet ==
    [type : {"CONSTANT"}, exposure_at_default : {One}, ccf_method : {"METHOD-1"}, ccf : {One}]

EIRAssumptionsSet == [base_rate : {"BASE"}]

SegmentAssumptionsSet ==
    [id : {1}, pd : PDAssumptionsSet, ead : EADAssumptionsSet, lgd : LGDAssumptionsSet,
     eir : EIRAssumptionsSet,
     stage_map : {StageMap_from_dataframe(df) : df \in StageMapSheets}]

\* segments with one name that no from_assumptions knows: an EAD type (the
\* bullet EAD is not among the types of ExposureAtDefault.from_assumptions),
\* an LGD type, a PD type or a PD method
UnrecognisedSegmentAssumptionsSet ==
    UNION {{[s EXCEPT !.ead.type = "unknown"], [s EXCEPT !.ead.type = "BULLET"],
            [s EXCEPT !.lgd.type = "unknown"],
            [s EXCEPT !.pd.type = "unknown"], [s EXCEPT !.pd.method = "METHOD-3"]} :
              s \in {t \in SegmentAssumptionsSet : t.pd.rho = Zero /\ ~t.pd.calibrated}}

\* segments with a number outside its range: an unsecured LGD with a loss given
\* write-off of 2, and an asset correlation of 1
OutOfRangeSegmentAssumptionsSet ==
    UNION {{[s EXCEPT !.lgd.type = "UNSECURED", !.lgd.loss_given_write_off = R(2)],
            [s EXCEPT !.pd.rho = One, !.pd.calibrated = TRUE]} :
              s \in {t \in SegmentAssumptionsSet : t.pd.rho = Zero /\ ~t.pd.calibrated}}

\* segments whose cure state is counted from the end of the matrix
NegativeCureStateSegmentAssumptionsSet ==
    UNION {{[s EXCEPT !.pd.cure_state = -1], [s EXCEPT !.pd.cure_state = -2]} :
              s \in {t \in SegmentAssumptionsSet :
                         /\ t.pd.rho = Zero /\ ~t.pd.calibrated
                         /\ t.lgd.probability_of_cure = Rat(1, 2)}}

\* the accounts of the account data: ratings are positions of the augmented
\* matrix, watchlist is NA or a stage 1..3, remaining_life is at least 1
AccountSet ==
    {a \in [contract_id : {"A"}, segment_id : {1}, reporting_date : {0},
            remaining_life : 1..MaxLife,
            origination_rating : {0, 1}, current_rating : {0, 2},
            watchlist : {NA, 2, 3},
            interest_rate_type : {"FIXED", "float"}, interest_rate_freq : {12},
            fixed_rate : {R(12)}, spread : {Zero},
            outstanding_balance : {R(8)}, limit : {R(8)}] :
        a.origination_rating = (IF a.current_rating = 2 THEN 1 ELSE 0)}

\* the account data of the executor runs: account A lives MaxLife months,
\* account B two months; B carries no balance, or an interest rate type that
\* is neither fixed nor floating
AccountA ==
    [contract_id |-> "A", segment_id |-> 1, reporting_date |-> 0, remaining_life |-> MaxLife,
     origination_rating |-> 0, current_rating |-> 0, watchlist |-> NA,
     interest_rate_type |-> "FIXED", interest_rate_freq |-> 12, fixed_rate |-> R(12),
     spread |-> Zero, outstanding_balance |-> R(8), limit |-> R(8)]
AccountB(interest_rate_type, outstanding_balance) ==
    [AccountA EXCEPT !.contract_id = "B", !.remaining_life = 2,
                     !.origination_rating = 1, !.current_rating = 2, !.watchlist = 2,
                     !.interest_rate_type = interest_rate_type,
                     !.outstanding_balance = outstanding_balance]
AccountDataSet ==
    {<<AccountA>>, <<AccountA, AccountB("float", R(8))>>,
     <<AccountA, AccountB("float", Zero)>>, <<AccountA, AccountB("prime", R(8))>>}

\* the account data of the dynamic forecasts: one account with one month left,
\* so that every offset up to MaxLife stays inside the scenarios
ForecastAccountDataSet == {<<[AccountA EXCEPT !.remaining_life = 1]>>}

\* the assumptions of the executor runs: one segment
AssumptionsSet ==
    {[segment_id \in {1} |-> seg] :
        seg \in {s \in SegmentAssumptionsSet :
                    /\ s.pd.rho = Rat(9, 25) /\ ~s.pd.calibrated /\ s.pd.time_in_watchlist = 1
                    /\ s.pd.transition_matrix \in {TTC_CLEAN, TTC_RISKY}
                    /\ s.stage_map = StageMap_from_dataframe(STAGE_MAP_ALL)}}

\* the scenarios of the executor runs, by name, and their weights
ZUp == [m \in Months |-> -ZCycle[m]]
ScenarioNamed(scenario_name) ==
    CASE scenario_name = "BASE" -> MakeScenario(ZFlat, 0)
      [] scenario_name = "UP" -> MakeScenario(ZUp, 0)
      [] OTHER -> MakeScenario(ZCycle, 12)
MakeScenarios(weight) == [x |-> [s \in DOMAIN weight |-> ScenarioNamed(s)], weight |-> weight]
ScenariosSet ==
    {MakeScenarios(("BASE" :> Rat(3, 5)) @@ ("DOWN" :> Rat(2, 5))),
     MakeScenarios(("BASE" :> Rat(1, 2)) @@ ("DOWN" :> Rat(1, 4)) @@ ("UP" :> Rat(1, 4))),
     MakeScenarios(("BASE" :> Rat(1, 2)) @@ ("weighted" :> Rat(1, 2)))}

\* the data of a climate risk scenario: per key two outcomes (index 0 and 1),
\* each with a row at month 0 and a row at the month last; or one row only
Outcomes(key, last) ==
    <<[key |-> key, date |-> 0, index |-> 0, value |-> Zero, probability |-> Rat(3, 4)],
      [key |-> key, date |-> 0, index |-> 1, value |-> R(-4), probability |-> Rat(1, 4)],
      [key |-> key, date |-> last, index |-> 0, value |-> Zero, probability |-> Rat(1, 2)],
      [key |-> key, date |-> last, index |-> 1, value |-> R(-8), probability |-> Rat(1, 2)]>>
ClimateRiskScenarioSet ==
    {Outcomes("A", MaxLife),
     Outcomes("A", 1),
     Outcomes("A", MaxLife) \o Outcomes("B", 1),
     Outcomes("B", MaxLife) \o <<Outcomes("A", 1)[2]>>}
\* (key, date_range) of an account: its contract and its remaining_life_index
ClimateItems ==
    {<<key, remaining_life_index([reporting_date |-> d, remaining_life |-> n])>> :
        key \in {"A", "B", "C"},
        d \in 0..1, n \in 1..MaxLife}

\* the licenses: the information with or without an expiration date, signed by
\* the issuer, signed by somebody else, edited after it was signed, signed
\* with another hash, or not signed at all; and no license file
ExpirationDates == {"", "2024-01-30", "2024-01-31", "2024-02-01", "never"}
InformationSet ==
    [company_name : {"Company Name"}, email : {"Email"}, expiration_date : ExpirationDates,
     author : {"author"}]
    \cup [company_name : {"Company Name"}, email : {"Email"}, author : {"author"}]
SignaturesOf(information) ==
    {sign(dumps(information), "issuer", HASH_METHOD),
     sign(dumps(information), "forger", HASH_METHOD),
     sign(dumps([information EXCEPT !.company_name = "Other Company"]), "issuer", HASH_METHOD),
     sign(dumps(information), "issuer", "SHA-256"),
     Garbage}
LicenseSet ==
    {[information |-> i, signature |-> s] : i \in InformationSet, s \in UNION {SignaturesOf(j) : j \in InformationSet}}
NotLoaded == [loaded |-> FALSE]
Commands == {"run", "generate_scenarios"}

-----------------------------------------------------------------------------
(* The state                                                                 *)

VARIABLES
    segment_assumptions,  \* the SegmentAssumptions of the segment
    scenario,             \* the Scenario being run
    ecl_model,            \* the ECLModel of the segment, "none" before it is built
    account,              \* the Account computed last, "none" before the first
    ecl,                  \* the result frame ECLModel[account], "none" before the first
    pc,                   \* the position of the run
    method,               \* Executor.method
    account_data,         \* the rows of AccountData, as Accounts
    assumptions,          \* Assumptions: segment id -> SegmentAssumptions
    scenarios,            \* Scenarios
    r,                    \* scenario name -> what run_scenario returned or raised
    results,              \* the data of the Results of Executor.execute
    exec_pc,              \* the position of Executor.execute
    cancel,               \* whether the caller has asked to cancel the execution
    order,                \* the scenario names in the order their workers finished
    license,              \* the License loaded at import, NotLoaded if loading failed
    VERIFY_KEY,           \* the verification key loaded at import, or "undefined"
    today,                \* date.today()
    command,              \* the command invoked
    is_valid,             \* what license.is_valid() returned, "unchecked" before
    log,                  \* the steps of the command that were taken
    raised,               \* what the command raised, "none" if nothing
    exit_code,            \* the exit status of the process, -1 while it runs
    cli_pc,               \* the position of the command
    outfile,              \* what this invocation left at the path outfile
    start,                \* dynamic forecast: the first offset in months
    stop,                 \* dynamic forecast: the stop of the offsets
    step,                 \* dynamic forecast: the months between two offsets
    steps,                \* the offsets executed so far, each with its Results
    forecast_pc,          \* the position of dynamic_balance_sheet_forecast
    climate_risk_scenario,  \* the data of a ClimateRiskScenario
    item,                 \* the (key, date_range) asked for
    crva,                 \* the ClimateRiskValueAdjustment returned, or what was raised
    moments,              \* its expected_value and variance
    climate_pc,           \* the position of the request
    argument,             \* a function called on its own: what it is called with
    returned,             \* what it returned, "none" before
    call_pc               \* the position of the call

pipeline_vars == <<segment_assumptions, scenario, ecl_model, account, ecl, pc>>
executor_vars ==
    <<method, account_data, assumptions, scenarios, r, results, exec_pc, cancel, order>>
cli_vars ==
    <<license, VERIFY_KEY, today, command, is_valid, log, raised, exit_code, cli_pc, outfile>>
forecast_vars == <<start, stop, step, steps, forecast_pc>>
climate_vars == <<climate_risk_scenario, item, crva, moments, climate_pc>>
call_vars == <<argument, returned, call_pc>>
vars == <<pipeline_vars, executor_vars, cli_vars, forecast_vars, climate_vars, call_vars>>

\* the parts of the program that a run does not use
PipelineIdle ==
    /\ segment_assumptions = "idle" /\ scenario = "idle" /\ ecl_model = "idle"
    /\ account = "idle" /\ ecl = "idle" /\ pc = "idle"
ExecutorIdle ==
    /\ method = "idle" /\ account_data = "idle" /\ assumptions = "idle"
    /\ scenarios = "idle" /\ r = "idle" /\ results = "idle" /\ exec_pc = "idle"
    /\ cancel = FALSE /\ order = <<>>
CLIIdle ==
    /\ license = "idle" /\ VERIFY_KEY = "idle" /\ today = 0 /\ command = "idle"
    /\ is_valid = "idle" /\ log = <<>> /\ raised = "idle" /\ exit_code = -1
    /\ cli_pc = "idle" /\ outfile = "idle"
ForecastIdle ==
    /\ start = 0 /\ stop = 0 /\ step = 0 /\ steps = <<>> /\ forecast_pc = "idle"
ClimateIdle ==
    /\ climate_risk_scenario = "idle" /\ item = "idle" /\ crva = "idle"
    /\ moments = "idle" /\ climate_pc = "idle"

CallIdle == argument = "idle" /\ returned = "idle" /\ call_pc = "idle"

(* One segment, one scenario, one account: run_scenario step by step *)

Init ==
    /\ segment_assumptions \in SegmentAssumptionsSet \cup UnrecognisedSegmentAssumptionsSet
                                \cup OutOfRangeSegmentAssumptionsSet
                                \cup NegativeCureStateSegmentAssumptionsSet
    /\ scenario \in ScenarioSet
    \* without asset correlation the credit cycle has no effect: one scenario
    /\ segment_assumptions.pd.rho = Zero => scenario = MakeScenario(ZFlat, 0)
    /\ ecl_model = "none"
    /\ account = "none"
    /\ ecl = "none"
    /\ pc = "start"
    /\ ExecutorIdle /\ CLIIdle /\ ForecastIdle /\ ClimateIdle /\ CallIdle

\* run_scenario, first statement: the ECLModel of the segment is built
BuildModel ==
    /\ pc = "start"
    /\ ecl_model' = ECLModel_from_assumptions(segment_assumptions, scenario)
    /\ pc' = IF ecl_model' = Raised("ValueError") THEN "error" ELSE "built"
    /\ UNCHANGED <<segment_assumptions, scenario, account, ecl, executor_vars, cli_vars, forecast_vars, climate_vars, call_vars>>

\* run_scenario, data.apply: the ECL frame of one account of the segment
ComputeAccount ==
    /\ pc = "built"
    /\ \E a \in AccountSet :
        /\ a.segment_id = segment_assumptions.id
        /\ account' = a
        /\ ecl' = ECLModel_getitem(ecl_model, a)
        /\ pc' = IF ReturnsSeries(a) THEN "computed" ELSE "error"
    /\ UNCHANGED <<segment_assumptions, scenario, ecl_model, executor_vars, cli_vars, forecast_vars, climate_vars, call_vars>>

Next == BuildModel \/ ComputeAccount

Spec == Init /\ [][Next]_vars

(* Executor.execute: the scenarios run one by one (map) or concurrently       *)
(* (thread_map, process_map), then the frames are collected                  *)

InitExecutor ==
    /\ method \in ExecutorMethods
    /\ account_data \in AccountDataSet
    /\ assumptions \in AssumptionsSet
    /\ scenarios \in ScenariosSet
    /\ r = <<>>
    /\ results = "none"
    /\ exec_pc = "running"
    /\ cancel = FALSE /\ order = <<>>
    /\ PipelineIdle /\ CLIIdle /\ ForecastIdle /\ ClimateIdle /\ CallIdle

\* the scenarios in the order of the argument list
Items == Scenarios_items(scenarios)
HasRaised == \E s \in DOMAIN r : IsRaised(r[s])

\* one call of run_scenario by the executor: map takes the arguments in order
\* and stops at the first exception, the pools take them in any order
RunScenario(scenario_name) ==
    /\ exec_pc = "running"
    /\ scenario_name \in DOMAIN scenarios.x \ DOMAIN r
    /\ method = "map" =>
         /\ ~HasRaised
         /\ \A i, j \in DOMAIN Items :
               i < j /\ Items[j] = scenario_name => Items[i] \in DOMAIN r
    /\ r' = r @@ (scenario_name :>
                    run_scenario(<<scenario_name, scenarios.x[scenario_name], "None",
                                   assumptions, account_data>>))
    /\ order' = Append(order, scenario_name)
    /\ LET Shared(after) ==
               /\ assumptions' = after.assumptions
               /\ scenarios' = [scenarios EXCEPT !.x[scenario_name] = after.scenario]
               /\ account_data' = after.account_data
       IN  Shared(run_scenario_shared(<<scenario_name, scenarios.x[scenario_name], "None",
                                        assumptions, account_data>>))
    /\ UNCHANGED <<method, results, exec_pc, cancel, pipeline_vars, cli_vars, forecast_vars, climate_vars, call_vars>>

\* Executor.execute collecting as soon as one worker has finished: the rows of
\* the scenarios that are still running are missing
Collect_early ==
    /\ exec_pc = "running"
    /\ r # <<>>
    /\ IF HasRaised
       THEN LET i == CHOOSE k \in DOMAIN Items :
                        /\ Items[k] \in DOMAIN r /\ IsRaised(r[Items[k]])
                        /\ \A j \in 1..(k - 1) : ~IsRaised(r[Items[j]])
            IN  results' = r[Items[i]] /\ exec_pc' = "raised"
       ELSE LET Finished == SelectSeq(Items, LAMBDA s : s \in DOMAIN r)
                rc == Executor_execute(account_data, scenarios,
                                       [i \in DOMAIN Finished |-> r[Finished[i]].returned])
            IN  IF IsRaised(rc)
                THEN results' = rc /\ exec_pc' = "raised"
                ELSE results' = rc.returned /\ exec_pc' = "done"
    /\ UNCHANGED <<method, account_data, assumptions, scenarios, r, cancel, order,
                   pipeline_vars, cli_vars, forecast_vars, climate_vars, call_vars>>

\* the rest of Executor.execute: the exception of the first scenario that
\* raised, or the scenarios' rows, the weighted rows and the account columns
Collect ==
    /\ exec_pc = "running"
    /\ DOMAIN r = DOMAIN scenarios.x \/ (method = "map" /\ HasRaised)
    /\ IF HasRaised
       THEN LET i == CHOOSE k \in DOMAIN Items :
                        /\ Items[k] \in DOMAIN r /\ IsRaised(r[Items[k]])
                        /\ \A j \in 1..(k - 1) : ~IsRaised(r[Items[j]])
            IN  results' = r[Items[i]] /\ exec_pc' = "raised"
       ELSE LET rc == Executor_execute(account_data, scenarios,
                                       [i \in DOMAIN Items |-> r[Items[i]].returned])
            IN  IF IsRaised(rc)
                THEN results' = rc /\ exec_pc' = "raised"
                ELSE results' = rc.returned /\ exec_pc' = "done"
    /\ UNCHANGED <<method, account_data, assumptions, scenarios, r, cancel, order,
                   pipeline_vars, cli_vars, forecast_vars, climate_vars, call_vars>>

\* the caller asks to cancel while Executor.execute runs; run_scenario and
\* Executor.execute read no cancel flag
RequestCancel ==
    /\ exec_pc = "running"
    /\ ~cancel
    /\ cancel' = TRUE
    /\ UNCHANGED <<method, account_data, assumptions, scenarios, r, results, exec_pc, order,
                   pipeline_vars, cli_vars, forecast_vars, climate_vars, call_vars>>

NextExecutor ==
    \/ \E scenario_name \in DOMAIN scenarios.x : RunScenario(scenario_name)
    \/ Collect
    \/ RequestCancel

SpecExecutor == InitExecutor /\ [][NextExecutor]_vars

(* __main__.py: the commands run and generate-scenarios *)

InitCLI ==
    /\ license \in LicenseSet \cup {NotLoaded}
    /\ VERIFY_KEY \in {"issuer", "undefined"}
    /\ today \in {31, 32}
    /\ command \in Commands
    /\ is_valid = "unchecked"
    /\ log = <<>>
    /\ raised = "none"
    /\ exit_code = -1
    /\ cli_pc = "invoked"
    /\ outfile = "absent"
    /\ PipelineIdle /\ ExecutorIdle /\ ForecastIdle /\ ClimateIdle /\ CallIdle

\* the command raises: the handler logs the error and raises Exception(e)
Raise(exception) ==
    /\ log' = Append(log, "error")
    /\ raised' = exception
    /\ exit_code' = ExitStatus(TRUE)
    /\ cli_pc' = "exited"

\* if license.is_valid(): when it is false the command has nothing more to do
\* and returns; the name license is not defined when the license did not load
CheckLicense ==
    /\ cli_pc = "invoked"
    /\ IF license = NotLoaded
       THEN Raise("NameError") /\ UNCHANGED is_valid
       ELSE IF License_is_valid(license, VERIFY_KEY, today)
       THEN /\ is_valid' = "True"
            /\ cli_pc' = "licensed"
            /\ UNCHANGED <<log, raised, exit_code>>
       ELSE /\ is_valid' = "False"
            /\ exit_code' = ExitStatus(FALSE)
            /\ cli_pc' = "exited"
            /\ UNCHANGED <<log, raised>>
    /\ UNCHANGED <<license, VERIFY_KEY, today, command, outfile, pipeline_vars, executor_vars,
                   forecast_vars, climate_vars, call_vars>>

\* run: Assumptions.from_file, Scenarios.from_file, AccountData.from_file;
\* generate-scenarios: Scenarios.from_assumptions, which reads the assumptions
\* and simulates the scenarios
LoadInputs ==
    /\ cli_pc = "licensed"
    /\ \E valid \in BOOLEAN :
          IF valid
          THEN /\ log' = IF command = "run" THEN Append(log, "load")
                         ELSE log \o <<"load", "compute">>
               /\ cli_pc' = IF command = "run" THEN "loaded" ELSE "computed"
               /\ UNCHANGED <<raised, exit_code>>
          ELSE Raise("invalid inputs")
    /\ UNCHANGED <<license, VERIFY_KEY, today, command, is_valid, outfile, pipeline_vars,
                   executor_vars, forecast_vars, climate_vars, call_vars>>

\* run: forecast(...) in a handler of its own that logs the error and goes on
Forecast_swallowed ==
    /\ cli_pc = "loaded"
    /\ \E completes \in BOOLEAN :
          /\ log' = Append(log, IF completes THEN "compute" ELSE "error")
          /\ cli_pc' = "computed"
          /\ UNCHANGED <<raised, exit_code>>
    /\ UNCHANGED <<license, VERIFY_KEY, today, command, is_valid, outfile, pipeline_vars,
                   executor_vars, forecast_vars, climate_vars, call_vars>>

\* run: forecast(...); it raises what a scenario or a step raises
Forecast ==
    /\ cli_pc = "loaded"
    /\ \E completes \in BOOLEAN :
          IF completes
          THEN /\ log' = Append(log, "compute")
               /\ cli_pc' = "computed"
               /\ UNCHANGED <<raised, exit_code>>
          ELSE Raise("runtime failure")
    /\ UNCHANGED <<license, VERIFY_KEY, today, command, is_valid, outfile, pipeline_vars,
                   executor_vars, forecast_vars, climate_vars, call_vars>>

\* run: results.save; generate-scenarios: scenarios.to_file; then the command
\* returns.  Results.save raises before ZipFile(destination, 'w') has created
\* the archive (the extension, the reports) or while the archive is written
Save ==
    /\ cli_pc = "computed"
    /\ \E completes \in BOOLEAN :
          IF completes
          THEN /\ log' = Append(log, "save")
               /\ exit_code' = ExitStatus(FALSE)
               /\ cli_pc' = "exited"
               /\ outfile' = "complete"
               /\ UNCHANGED raised
          ELSE Raise("runtime failure") /\ outfile' \in {"absent", "partial"}
    /\ UNCHANGED <<license, VERIFY_KEY, today, command, is_valid, pipeline_vars, executor_vars,
                   forecast_vars, climate_vars, call_vars>>

NextCLI == CheckLicense \/ LoadInputs \/ Forecast \/ Save

SpecCLI == InitCLI /\ [][NextCLI]_vars

(* dynamic_balance_sheet_forecast: Executor.execute once per offset, one after *)
(* the other (Methods.Map), then the reduction of the Results               *)

InitForecast ==
    /\ method \in ExecutorMethods
    /\ account_data \in ForecastAccountDataSet
    /\ assumptions \in AssumptionsSet
    /\ scenarios \in ScenariosSet
    /\ start \in 0..1
    /\ stop \in 0..MaxLife
    /\ step \in 1..2
    /\ steps = <<>>
    /\ forecast_pc = "stepping"
    /\ r = "idle" /\ results = "none" /\ exec_pc = "idle" /\ cancel = FALSE /\ order = <<>>
    /\ PipelineIdle /\ CLIIdle /\ ClimateIdle /\ CallIdle

\* the next element of map(step_and_execute, args); an exception ends the map
StepAndExecute ==
    /\ forecast_pc = "stepping"
    /\ Len(steps) < Len(range(start, stop, step))
    /\ LET Step(offset, rc) ==
               IF IsRaised(rc)
               THEN results' = rc /\ forecast_pc' = "raised" /\ UNCHANGED steps
               ELSE /\ steps' = Append(steps, [offset |-> offset, results |-> rc.returned])
                    /\ UNCHANGED <<results, forecast_pc>>
           Offset(offset) ==
               Step(offset, step_and_execute(<<account_data, assumptions, scenarios, "None",
                                               offset>>))
       IN  Offset(range(start, stop, step)[Len(steps) + 1])
    /\ UNCHANGED <<method, account_data, assumptions, scenarios, r, exec_pc, cancel, order,
                   start, stop, step, pipeline_vars, cli_vars, climate_vars, call_vars>>

\* reduce(__add__, ...) over the Results of the offsets
Reduce ==
    /\ forecast_pc = "stepping"
    /\ Len(steps) = Len(range(start, stop, step))
    /\ LET Return(rc) ==
               IF IsRaised(rc) THEN results' = rc /\ forecast_pc' = "raised"
               ELSE results' = rc.returned /\ forecast_pc' = "done"
       IN  Return(reduce_add([i \in DOMAIN steps |-> steps[i].results]))
    /\ UNCHANGED <<method, account_data, assumptions, scenarios, r, exec_pc, cancel, order,
                   start, stop, step, steps, pipeline_vars, cli_vars, climate_vars, call_vars>>

NextForecast == StepAndExecute \/ Reduce

SpecForecast == InitForecast /\ [][NextForecast]_vars

(* ClimateRiskScenario[(key, date_range)] and the moments of the adjustment *)

InitClimate ==
    /\ climate_risk_scenario \in ClimateRiskScenarioSet
    /\ item \in ClimateItems
    /\ item[2][VecLen(item[2]) - 1] <= MaxLife
    /\ crva = "none"
    /\ moments = "none"
    /\ climate_pc = "start"
    /\ PipelineIdle /\ ExecutorIdle /\ CLIIdle /\ ForecastIdle /\ CallIdle

\* climate_risk_scenario[(key, date_range)]
GetAdjustment ==
    /\ climate_pc = "start"
    /\ crva' = ClimateRiskScenario_getitem(climate_risk_scenario, item)
    /\ climate_pc' = IF "raised" \in DOMAIN crva' THEN "raised" ELSE "returned"
    /\ UNCHANGED <<climate_risk_scenario, item, moments, pipeline_vars, executor_vars,
                   cli_vars, forecast_vars, call_vars>>

\* the consumer reads expected_value and variance of the adjustment
ReadMoments ==
    /\ climate_pc = "returned"
    /\ moments' = [expected_value |-> expected_value(crva.returned),
                   variance |-> variance(crva.returned)]
    /\ climate_pc' = "done"
    /\ UNCHANGED <<climate_risk_scenario, item, crva, pipeline_vars, executor_vars,
                   cli_vars, forecast_vars, call_vars>>

NextClimate == GetAdjustment \/ ReadMoments

SpecClimate == InitClimate /\ [][NextClimate]_vars

(* The 12-month and lifetime sums of ECLModel.__getitem__ on their own, for
   accounts with more than twelve months left *)

\* the marginal PDs of an account with up to MaxHorizon months left: defaults
\* in at most two of the months; and the marginal ECL pd * ead * lgd * df_t0 for
\* ead * lgd * df_t0 = 2
MarginalSeriesSet ==
    UNION {{[pd |-> [k \in 0..(L - 1) |-> IF k \in {i, j} THEN Rat(1, 4) ELSE Zero],
             marginal_ecl |-> [k \in 0..(L - 1) |-> IF k \in {i, j} THEN Rat(1, 2) ELSE Zero]] :
                i \in 0..(L - 1), j \in 0..L} : L \in 1..MaxHorizon}

InitWindow ==
    /\ argument \in MarginalSeriesSet
    /\ returned = "none"
    /\ call_pc = "start"
    /\ PipelineIdle /\ ExecutorIdle /\ CLIIdle /\ ForecastIdle /\ ClimateIdle

\* cpd_12m, pd_12m, stage_2_ecl_t0 and stage_1_ecl_t0 of ECLModel.__getitem__
TwelveMonthSums ==
    /\ call_pc = "start"
    /\ returned' =
          LET Sums(cpd_12m, stage_2_ecl_t0) ==
                  [cpd_12m |-> cpd_12m,
                   pd_12m |-> [t \in DOMAIN cpd_12m |->
                                  RSub(cpd_12m[t], ShiftFill(cpd_12m, 12, t))],
                   stage_2_ecl_t0 |-> stage_2_ecl_t0,
                   stage_1_ecl_t0 |-> [t \in DOMAIN stage_2_ecl_t0 |->
                                          RSub(stage_2_ecl_t0[t],
                                               ShiftFill(stage_2_ecl_t0, 12, t))]]
          IN  Sums(Array([t \in DOMAIN argument.pd |-> RevCumSum(argument.pd, t)]),
                   Array([t \in DOMAIN argument.marginal_ecl |->
                             RevCumSum(argument.marginal_ecl, t)]))
    /\ call_pc' = "done"
    /\ UNCHANGED <<argument, pipeline_vars, executor_vars, cli_vars, forecast_vars,
                   climate_vars>>

SpecWindow == InitWindow /\ [][TwelveMonthSums]_vars

(* The amortising EAD of one account on its own *)

\* EAD assumptions of type AMORTISING
AmortisingEADAssumptionsSet ==
    [type : {"AMORTISING"}, fees_fixed : {Zero, One}, fees_pct : {Zero, Rat(1, 2)},
     prepayment_pct : {Zero, Rat(1, 2)}, default_penalty_pct : {Zero, Rat(1, 2)},
     default_penalty_amt : {Zero, One}]

\* amortising accounts: a payment each month or each second month, a payment
\* holiday that ends at month 2 or none, with and without arrears
AmortisingAccountSet ==
    [contract_id : {"A"}, reporting_date : {0}, remaining_life : 1..MaxLife,
     outstanding_balance : {R(8)}, contractual_payment : {Zero, R(2), R(4)},
     contractual_freq : {12, 6}, current_arrears : {Zero, R(4)},
     payment_holiday_end_date : {NA, 2}]

InitEAD ==
    /\ argument \in [assumptions : AmortisingEADAssumptionsSet, account : AmortisingAccountSet,
                      eir : {Zero, One}]
    /\ returned = "none"
    /\ call_pc = "start"
    /\ PipelineIdle /\ ExecutorIdle /\ CLIIdle /\ ForecastIdle /\ ClimateIdle

\* ExposureAtDefault.from_assumptions(assumptions, scenario, eir)[account], where
\* eir[account] is the same rate in every month
AmortisingEAD ==
    /\ call_pc = "start"
    /\ returned' =
          AmortisingExposureAtDefault_getitem(
              ExposureAtDefault_from_assumptions_AMORTISING(
                  argument.assumptions,
                  [t \in 0..(argument.account.remaining_life - 1) |-> argument.eir]),
              argument.account)
    /\ call_pc' = "done"
    /\ UNCHANGED <<argument, pipeline_vars, executor_vars, cli_vars, forecast_vars,
                   climate_vars>>

SpecEAD == InitEAD /\ [][AmortisingEAD]_vars

(* The regularised generator of one transition matrix on its own *)

\* the decompositions of row-stochastic 3 x 3 matrices: the eigenvalues are
\* 1 > a > b >= 0, the eigenvector of 1 is the vector of ones
EigSet ==
    LET EigenvectorSet ==
            {Vec(<<-3, 3, -1>>), Vec(<<2, -3, 2>>), Vec(<<1, -1, 0>>), Vec(<<0, 1, -1>>),
             Vec(<<1, 0, -1>>), Vec(<<-1, 1, 1>>), Vec(<<1, -1, 1>>), Vec(<<1, 1, -1>>)}
        EigenvalueSet ==
            {Vec(<<One, Rat(1, 2), Rat(1, 4)>>),
             Vec(<<One, Rat(1, 4), Rat(1, 2 ^ MaxLogExponent)>>),
             Vec(<<One, Rat(1, 2), Zero>>)}
        RowStochasticMatrix(x) ==
            \A i \in 0..2 : RSum(x[i]) = One /\ \A j \in 0..2 : RLeq(Zero, x[i][j])
    IN  {e \in [e_value : EigenvalueSet,
                e_vector : {[i \in 0..2 |-> [k \in 0..2 |->
                                IF k = 0 THEN One ELSE IF k = 1 THEN R(v[i]) ELSE R(w[i])]] :
                            v \in EigenvectorSet, w \in EigenvectorSet}] :
            RowStochasticMatrix(FromEigen(e.e_value, e.e_vector))}

InitGenerator ==
    /\ argument \in [eig : EigSet, frequency : {1, 12}]
    /\ returned = "none"
    /\ call_pc = "start"
    /\ PipelineIdle /\ ExecutorIdle /\ CLIIdle /\ ForecastIdle /\ ClimateIdle

\* gmWA(x, frequency), the first step of make_monthly_matrix
RegulariseGenerator ==
    /\ call_pc = "start"
    /\ returned' = gmWA(argument.eig.e_value, argument.eig.e_vector, argument.frequency)
    /\ call_pc' = "done"
    /\ UNCHANGED <<argument, pipeline_vars, executor_vars, cli_vars, forecast_vars,
                   climate_vars>>

SpecGenerator == InitGenerator /\ [][RegulariseGenerator]_vars

-----------------------------------------------------------------------------
(* Properties of the per-account pipeline (specification Spec)               *)

InUnit(a) == RLeq(Zero, a) /\ RLeq(a, One)

Computed == pc = "computed"
Life == account.remaining_life
StageSets == segment_assumptions.stage_map[account.origination_rating]
StageSetsDisjoint == \A s1, s2 \in 0..3 : s1 # s2 => StageSets[s1] \cap StageSets[s2] = {}
StageSetsUnion == UNION {StageSets[s] : s \in 0..3}
WO == WOState(segment_assumptions)
RowSum(t) == RAdd(RAdd(ecl[t].PS1, ecl[t].PS2), RAdd(ecl[t].PS3, ecl[t].PSWO))
StagesSumToOne ==
    \A t \in 0..(Life - 1) :
        /\ InUnit(ecl[t].PS1) /\ InUnit(ecl[t].PS2) /\ InUnit(ecl[t].PS3) /\ InUnit(ecl[t].PSWO)
        /\ RowSum(t) = One

WriteOffNonDecreasing == \A t \in 0..(Life - 2) : RLeq(ecl[t].PSWO, ecl[t + 1].PSWO)

StageRow(row) == <<row.PS1, row.PS2, row.PS3, row.PSWO>>
Unwatched == StageProbability_getitem(ecl_model, [account EXCEPT !.watchlist = NA])

\* C3: for a watchlist w in 1..3 the rows t < min(T_w, L) have probability 1 in
\* stage w and 0 in the other stages and in WO, and the rows t >= T_w are those of
\* the same account without watchlist.
C3_WatchlistOverride ==
    (Computed /\ account.watchlist # NA) =>
        LET unwatched == Array(Unwatched)
        IN  \A t \in 0..(Life - 1) :
                IF t < segment_assumptions.pd.time_in_watchlist
                THEN StageRow(ecl[t]) =
                        [s \in 1..4 |-> IF s = account.watchlist THEN One ELSE Zero]
                ELSE StageRow(ecl[t]) = [s \in 1..4 |-> unwatched[t][s - 1]]

C3_Witness ==
    /\ Computed /\ account.watchlist = 3 /\ Life = 3
    /\ segment_assumptions.pd.time_in_watchlist = 2
    /\ ecl[1].PS3 = One /\ Unwatched[1][2] = Zero
    /\ RLt(Zero, ecl[2].PS1) /\ RLt(ecl[2].PS3, One)

Matrices == ecl_model.transition_matrix.x
RowStochastic(m) ==
    \A i \in DOMAIN m : (\A j \in DOMAIN m[i] : InUnit(m[i][j])) /\ RSum(m[i]) = One
WriteOffRowIsUnit(m) ==
    \A j \in DOMAIN m[0] : m[NRows(m) - 1][j] = (IF j = NCols(m) - 1 THEN One ELSE Zero)

\* C4: every monthly matrix from_assumption makes from the write-off-augmented TTC
\* matrix (both methods, calibrated or not, any Z, rho in [0,1)) is row-stochastic
\* and its write-off row is the unit vector on the write-off state.
C4_RowStochastic ==
    pc = "built" =>
        \A m \in DOMAIN Matrices : RowStochastic(Matrices[m]) /\ WriteOffRowIsUnit(Matrices[m])

C4_Witness ==
    /\ pc = "built"
    /\ segment_assumptions.pd.method = "METHOD-2" /\ ~segment_assumptions.pd.calibrated
    /\ segment_assumptions.pd.rho # Zero
    /\ scenario.Z[0] = 1 /\ scenario.Z[2] = 0
    /\ Matrices[0] # Matrices[2]
    /\ \E i \in DOMAIN Matrices[0] : \E j \in DOMAIN Matrices[0] :
           RLt(Zero, Matrices[0][i][j]) /\ RLt(Matrices[0][i][j], One)

EclBound(t) == RMul(ecl[t].EAD, RAdd(RAdd(ecl[t].PS1, ecl[t].PS2), ecl[t].PS3))
EclWithinExposure ==
    \A t \in 0..(Life - 1) : RLeq(Zero, ecl[t].ECL) /\ RLeq(ecl[t].ECL, EclBound(t))

DefaultNotLeft ==
    \A m \in DOMAIN Matrices : \A j \in 0..(WO - 2) : Matrices[m][WO - 1][j] = Zero

-----------------------------------------------------------------------------
(* Properties of the scenario executor (specification SpecExecutor)          *)

Done == exec_pc = "done"
\* the keys of the detailed output, and its rows labelled 'weighted' per key
OutputKeys == {Key(results[i]) : i \in DOMAIN results}
WeightedRows(k) ==
    {i \in DOMAIN results : results[i].scenario = "weighted" /\ Key(results[i]) = k}
\* the row of scenario s for a key, in the frame run_scenario returned for s
ScenarioRow(s, k) ==
    LET rs == r[s].returned IN rs[CHOOSE i \in DOMAIN rs : Key(rs[i]) = k]
\* sum over the scenarios s of w_s * row_s[column]
WeightedSum(k, column) ==
    RSum([j \in 0..(Len(Items) - 1) |->
            RMul(Scenarios_weights(scenarios)[Items[j + 1]],
                 ScenarioRow(Items[j + 1], k)[column])])
WeightsSumToOne ==
    RSum([j \in 0..(Len(Items) - 1) |-> Scenarios_weights(scenarios)[Items[j + 1]]]) = One

\* C5, as the claim states it: when Executor.execute has returned, the weights
\* of the scenarios sum to 1 and, for every key (contract_id, T,
\* forecast_reporting_date) of the output, exactly one row of the key is
\* labelled 'weighted', and each numeric field of that row is the sum over the
\* scenarios s of w_s times the field of the row of s.
C5_AsStated ==
    Done =>
        /\ WeightsSumToOne
        /\ \A k \in OutputKeys :
              /\ Cardinality(WeightedRows(k)) = 1
              /\ \A i \in WeightedRows(k), c \in NumericColumns :
                    results[i][c] = WeightedSum(k, c)

\* the rows of one account in the frame of one scenario
AccountRows(s, a) ==
    {i \in DOMAIN r[s].returned : r[s].returned[i].contract_id = a.contract_id}

\* C7, as the claim states it: for every scenario and account the frame has
\* exactly remaining_life rows, with T = 0..L-1 and with the successive month
\* ends from the reporting date as dates, and no two rows of the detailed
\* output share (scenario, contract_id, T, forecast_reporting_date).
C7_AsStated ==
    Done =>
        /\ \A s \in DOMAIN r, n \in DOMAIN account_data :
              LET a == account_data[n]
                  rows == AccountRows(s, a)
              IN  /\ Cardinality(rows) = a.remaining_life
                  /\ {r[s].returned[i].T : i \in rows} = 0..(a.remaining_life - 1)
                  /\ \A i \in rows :
                        r[s].returned[i].forecast_reporting_date
                          = a.reporting_date + r[s].returned[i].T
        /\ \A i, j \in DOMAIN results :
              i # j => <<results[i].scenario, Key(results[i])>>
                         # <<results[j].scenario, Key(results[j])>>

\* the rows of the execution that runs the scenarios one at a time in the order
\* of scenarios.items()
Sequential ==
    Executor_execute(account_data, scenarios,
        [i \in DOMAIN Items |->
            run_scenario(<<Items[i], scenarios.x[Items[i]], "None",
                           assumptions, account_data>>).returned])
Rows(frame) == {frame[i] : i \in DOMAIN frame}

C11_AsStated == cancel => exec_pc # "done"

\* C15: when a segment's assumptions name an EAD type, an LGD type, a PD type
\* or a PD method that the code does not know, the build of the segment's
\* ECLModel raises, and the run ends there: no account has been computed and no
\* result frame exists.
C15_Unrecognised ==
    \/ segment_assumptions.ead.type \notin {"CONSTANT", "AMORTISING", "CCF"}
    \/ segment_assumptions.lgd.type
         \notin {"SECURED", "UNSECURED", "CONSTANT", "CONSTANT-GROWTH", "INDEXED"}
    \/ segment_assumptions.pd.type # "TRANSITION_MATRIX"
    \/ segment_assumptions.pd.method \notin {"METHOD-1", "METHOD-2"}
C15_FailsAtBuild ==
    (pc # "start" /\ C15_Unrecognised) =>
        /\ pc = "error"
        /\ ecl_model = Raised("ValueError")
        /\ account = "none"
        /\ ecl = "none"
C15_Witness ==
    /\ pc = "error"
    /\ segment_assumptions.pd.method = "METHOD-3"
    /\ ecl_model = Raised("ValueError")

\* C14 as stated: a finished dynamic forecast has executed the pipeline once
\* for each offset start, start + step, ... up to and including stop where the
\* stepping reaches it, and its result is the concatenation of the results of
\* these runs, in this order.
C14_AsStated ==
    forecast_pc = "done" =>
        /\ {steps[i].offset : i \in DOMAIN steps}
             = {m \in start..stop : (m - start) % step = 0}
        /\ results = Concat([i \in DOMAIN steps |-> steps[i].results])

\* C16 as stated: when an account's interest_rate_type is neither FIXED nor
\* FLOAT, the request for its effective interest rate raises the error of an
\* invalid configuration (ValueError, as every other rejected name does), so
\* that is what the scenario's run ends with, and no ECL row comes out of it.
C16_AsStated ==
    \A s \in DOMAIN r :
        (\E i \in DOMAIN account_data : ~ReturnsSeries(account_data[i])) =>
            r[s] = Raised("ValueError")

\* C17 as stated: for a segment whose EAD type is CONSTANT, AMORTISING, BULLET
\* or CCF (every other name of the segment being known), the build gives the
\* EAD model, and a computed account has one element per month of its
\* remaining_life_index.
C17_AsStated ==
    (/\ segment_assumptions.ead.type \in {"CONSTANT", "AMORTISING", "BULLET", "CCF"}
     /\ segment_assumptions.lgd.type \in LGDTypes
     /\ segment_assumptions.pd.type \in PDTypes
     /\ segment_assumptions.pd.method \in Methods) =>
        /\ pc # "start" => ecl_model # Raised("ValueError")
        /\ Computed =>
              /\ DOMAIN ecl = 0..(Life - 1)
              /\ \A t \in DOMAIN ecl :
                    ecl[t].forecast_reporting_date = remaining_life_index(account)[t]

\* C18 as stated: segment assumptions with a number outside its range (rho
\* outside [0,1), or a probability of cure, a loss given cure or a loss given
\* write-off outside [0,1]) are rejected with an error by the time the
\* pipeline is built: no ECL row is computed from them.
C18_OutOfRange ==
    \/ ~(RLeq(Zero, segment_assumptions.pd.rho) /\ RLt(segment_assumptions.pd.rho, One))
    \/ ~InUnit(segment_assumptions.lgd.probability_of_cure)
    \/ ~InUnit(segment_assumptions.lgd.loss_given_cure)
    \/ ~InUnit(segment_assumptions.lgd.loss_given_write_off)
C18_AsStated ==
    (pc # "start" /\ C18_OutOfRange) =>
        /\ pc = "error"
        /\ ecl_model = Raised("ValueError")
        /\ ecl = "none"

-----------------------------------------------------------------------------
(* Properties of the license check and the commands (specification SpecCLI)  *)

\* the signature is the SHA-1 signature of exactly the license's information
\* by the key pair of the verification key
SignatureVerifies ==
    /\ VERIFY_KEY # "undefined"
    /\ license.signature = sign(dumps(license.information), VERIFY_KEY, HASH_METHOD)
\* the license names no expiration date, or one that is a date not before today
HasExpirationDate ==
    /\ "expiration_date" \in DOMAIN license.information
    /\ license.information.expiration_date # ""
NotExpired ==
    HasExpirationDate =>
        /\ fromisoformat(license.information.expiration_date) # Raised("ValueError")
        /\ fromisoformat(license.information.expiration_date).returned >= today

\* C8: License.is_valid returns True if and only if the signature verifies
\* against the verification key over exactly the information and the
\* expiration date, where the license names one, is a date not earlier than
\* today; so a license expiring today is valid, and a license with a
\* mismatching signature, an unparsable date or a date before today is not.
C8_IsValid ==
    is_valid \in {"True", "False"} => (is_valid = "True" <=> SignatureVerifies /\ NotExpired)

\* a license that expires today was checked and found valid
C8_Witness ==
    /\ is_valid = "True"
    /\ HasExpirationDate
    /\ fromisoformat(license.information.expiration_date) = Returned(today)

\* C9, as the claim states it: inputs are loaded, a forecast computed and
\* output written only after is_valid returned True, and a command invoked
\* with an invalid license ends in a failure.
C9_AsStated ==
    /\ (\E i \in DOMAIN log : log[i] \in {"load", "compute", "save"}) => is_valid = "True"
    /\ cli_pc = "exited" /\ is_valid # "True" => raised # "none" /\ exit_code # 0

\* C10, as the claim states it: run exits with 0 on success, 1 on invalid
\* inputs, 2 on an invalid license and 3 on a runtime failure.
C10_AsStated ==
    cli_pc = "exited" /\ command = "run" =>
        exit_code = CASE is_valid # "True" -> 2
                      [] raised = "invalid inputs" -> 1
                      [] raised = "runtime failure" -> 3
                      [] OTHER -> 0

\* C19 as stated: is_valid raises instead of returning a value when the license
\* is not acceptable: ValueError for a loaded license whose expiration date is
\* a past date, VerificationError for a license whose information was changed
\* after it was signed (the expiration date moved to a later date).
C19_Expired ==
    /\ "expiration_date" \in DOMAIN license.information
    /\ fromisoformat(license.information.expiration_date) \in {Returned(d) : d \in 0..(today - 1)}
C19_Changed ==
    /\ ~C19_Expired
    /\ \E signed \in InformationSet :
          /\ signed # license.information
          /\ license.signature = sign(dumps(signed), "issuer", HASH_METHOD)
C19_AsStated ==
    (license # NotLoaded /\ cli_pc # "invoked") =>
        /\ C19_Expired => (is_valid = "unchecked" /\ raised = "ValueError")
        /\ C19_Changed => (is_valid = "unchecked" /\ raised = "VerificationError")

\* C20: when the climate risk scenario has no row for the key of the account,
\* the request for (key, date_range) raises nothing and returns an adjustment
\* whose expected value and variance are zero, and the reading of its moments
\* goes on.
C20_KeyMissing ==
    \A i \in DOMAIN climate_risk_scenario : climate_risk_scenario[i].key # item[1]
C20_ZeroAdjustment ==
    (climate_pc # "start" /\ C20_KeyMissing) =>
        /\ climate_pc \in {"returned", "done"}
        /\ climate_pc = "done" =>
              /\ \A i \in DOMAIN moments.expected_value : moments.expected_value[i] = Zero
              /\ \A i \in DOMAIN moments.variance : moments.variance[i] = Zero
C20_Witness ==
    /\ climate_pc = "done" /\ C20_KeyMissing
    /\ item[1] = "B" /\ VecLen(item[2]) >= 2
    /\ moments.expected_value[0] = Zero

\* the monthly TTC matrix of the segment, standardised, as from_assumption gets it
MonthlyTTC ==
    standardise(make_monthly_matrix(segment_assumptions.pd.transition_matrix,
                                    segment_assumptions.pd.frequency,
                                    segment_assumptions.lgd.probability_of_cure,
                                    segment_assumptions.pd.cure_state,
                                    segment_assumptions.lgd.time_to_sale))
Built == pc \in {"built", "computed"}
PitEqualsTTC == \A m \in Months : ecl_model.transition_matrix.x[m] = MonthlyTTC

\* C21 as stated: with calibrated = true and Z = 0 in every month, every
\* monthly point-in-time matrix equals the standardised monthly TTC matrix,
\* cell by cell, for METHOD-1 and for METHOD-2 and every rho in [0, 1).
C21_AsStated ==
    (/\ Built /\ segment_assumptions.pd.calibrated
     /\ RLeq(Zero, segment_assumptions.pd.rho) /\ RLt(segment_assumptions.pd.rho, One)
     /\ \A m \in Months : scenario.Z[m] = 0) => PitEqualsTTC

\* the prefix product P_{0->t} = P_0 . P_1 ... P_{t-1} of the monthly matrices
\* of the account's remaining life, the identity for t = 0
PrefixProduct(t) ==
    LET idx == remaining_life_index(account)
        x == ecl_model.transition_matrix.x
        prod[u \in 0..t] ==
            IF u = 0 THEN Identity(NRows(x[idx[0]])) ELSE MatMul(prod[u - 1], x[idx[u - 1]])
    IN  prod[t]
StagesOf(row) == [stage \in 0..3 |-> RSumSet(StageSets[stage], row)]
EmittedStages(t) == [stage \in 0..3 |->
    CASE stage = 0 -> ecl[t].PS1 [] stage = 1 -> ecl[t].PS2
      [] stage = 2 -> ecl[t].PS3 [] OTHER -> ecl[t].PSWO]

\* C22 as stated: for an account without watchlist the stage probabilities at
\* every horizon t are those of row current_rating of the prefix product
\* P_{0->t}, so that horizon 1 shows one application of the first monthly matrix.
C22_AsStated ==
    (Computed /\ account.watchlist = NA) =>
        \A t \in 0..(Life - 1) :
            EmittedStages(t) = StagesOf(PrefixProduct(t)[account.current_rating])

\* c_t: the probability of being in the default state after t months
DefaultState == PyIdx(WO + 1, ecl_model.transition_matrix.default_state)
MonthlyMatrix(t) == ecl_model.transition_matrix.x[remaining_life_index(account)[t]]
CumulativeDefault(t) ==
    IF t < 0 THEN Zero
    ELSE IF t = 0 THEN PrefixProduct(0)[account.current_rating][DefaultState]
    ELSE MatMul(PrefixProduct(t - 1), MonthlyMatrix(t - 1))[account.current_rating][DefaultState]

\* C23 as stated: the marginal PD of every horizon is the increase of the
\* cumulative probability of being in default, PD(t) = c_t - c_{t-1} (with the
\* months counted from 0 or from 1), also when default is left by cure and
\* write-off.
C23_AsStated ==
    Computed =>
        \/ \A t \in 0..(Life - 1) :
              ecl[t].PD = RSub(CumulativeDefault(t), CumulativeDefault(t - 1))
        \/ \A t \in 0..(Life - 1) :
              ecl[t].PD = RSub(CumulativeDefault(t + 1), CumulativeDefault(t))

\* C23 amended: PD(t) is the probability of entering default in month t from
\* a rating: the cumulative default probability after the month less what
\* stays in default over the month, PD(t) = c_{t+1} - c_t * P_t[D, D].
C23_Inflow ==
    Computed =>
        \A t \in 0..(Life - 1) :
            ecl[t].PD = RSub(CumulativeDefault(t + 1),
                             RMul(CumulativeDefault(t), MonthlyMatrix(t)[DefaultState][DefaultState]))

\* a performing account whose default state is left by cure or write-off while
\* it still receives new defaults
C23_Witness ==
    /\ Computed /\ Life >= 2
    /\ account.current_rating # DefaultState
    /\ RLt(Zero, CumulativeDefault(1))
    /\ RLt(MonthlyMatrix(1)[DefaultState][DefaultState], One)
    /\ RLt(Zero, ecl[1].PD)
    /\ ecl[1].PD # RSub(CumulativeDefault(2), CumulativeDefault(1))

\* the matrix add_write_off returns for the segment's matrix
Augmented ==
    add_write_off(segment_assumptions.pd.transition_matrix,
                  segment_assumptions.lgd.probability_of_cure,
                  segment_assumptions.pd.cure_state,
                  segment_assumptions.lgd.time_to_sale)
\* a row of n zeros with v added at j
Contribution(n, j, v) == [i \in 0..(n - 1) |-> IF i = j THEN v ELSE Zero]
RowAdd(a, b) == [i \in DOMAIN a |-> RAdd(a[i], b[i])]
ExpectedDefaultRow(p, cure_state, rates) ==
    LET k == NRows(p)
    IN  RowAdd(RowAdd(Contribution(k, PyIdx(k, cure_state), rates.c),
                      Contribution(k, k - 2, rates.s)),
               Contribution(k, k - 1, rates.w))

\* C24 as stated: the default row of the matrix add_write_off returns holds
\* only c at cure_state, s at the default state and w at the write-off state,
\* which sum to 1, and the write-off row is the unit vector of the write-off
\* state, whatever the default row of the input was.
C24_AsStated ==
    Built =>
        LET Holds(p, rates) ==
                /\ p[NRows(p) - 2] = ExpectedDefaultRow(p, segment_assumptions.pd.cure_state, rates)
                /\ RAdd(RAdd(rates.s, rates.c), rates.w) = One
                /\ p[NRows(p) - 1] = Contribution(NRows(p), NRows(p) - 1, One)
        IN  Holds(Augmented, WriteOffRates(segment_assumptions.lgd.probability_of_cure,
                                           segment_assumptions.lgd.time_to_sale))

\* C25 as stated: a negative cure_state counts the columns of the segment's
\* N x N matrix from its end; the cure probability c is added to the default
\* row at that rating, the write-off entry of the default row stays w and the
\* default state's diagonal entry stays s.
C25_AsStated ==
    (Built /\ segment_assumptions.pd.cure_state < 0) =>
        LET x == segment_assumptions.pd.transition_matrix
            N == NRows(x)
            target == N + segment_assumptions.pd.cure_state
            Holds(p, rates) ==
                /\ p[N - 1][N] = rates.w
                /\ target # N - 1 =>
                      /\ p[N - 1][N - 1] = rates.s
                      /\ p[N - 1][target] = RAdd(x[N - 1][target], rates.c)
        IN  Holds(Augmented, WriteOffRates(segment_assumptions.lgd.probability_of_cure,
                                           segment_assumptions.lgd.time_to_sale))

\* the sum of v over the months lo..hi
MonthsSum(v, lo, hi) == RSumSet(lo..hi, v)
Min(a, b) == IF a < b THEN a ELSE b

\* C26: with L months left, 12mPD(t) and the undiscounted Stage-1 amount are
\* the sums of PD(k) and of the marginal credit risk over k = t..min(t+11, L-1),
\* Lifetime PD(t) and the undiscounted Stage-2 amount are the same sums over
\* k = t..L-1, and the two agree whenever L - t <= 12.
C26_TwelveMonthWindow ==
    call_pc = "done" =>
        LET L == VecLen(argument.pd)
        IN  \A t \in 0..(L - 1) :
                /\ returned.pd_12m[t] = MonthsSum(argument.pd, t, Min(t + 11, L - 1))
                /\ returned.stage_1_ecl_t0[t] =
                       MonthsSum(argument.marginal_ecl, t, Min(t + 11, L - 1))
                /\ returned.cpd_12m[t] = MonthsSum(argument.pd, t, L - 1)
                /\ returned.stage_2_ecl_t0[t] = MonthsSum(argument.marginal_ecl, t, L - 1)
                /\ L - t <= 12 => returned.stage_1_ecl_t0[t] = returned.stage_2_ecl_t0[t]

\* thirteen or more months left and a default after the twelfth: the 12-month
\* sums at t = 0 are smaller than the lifetime sums, at t = L - 12 they agree
C26_Witness ==
    /\ call_pc = "done"
    /\ VecLen(argument.pd) > 12
    /\ RLt(returned.pd_12m[0], returned.cpd_12m[0])
    /\ RLt(returned.stage_1_ecl_t0[0], returned.stage_2_ecl_t0[0])
    /\ RLt(Zero, returned.pd_12m[0])
    /\ returned.stage_1_ecl_t0[VecLen(argument.pd) - 12] =
           returned.stage_2_ecl_t0[VecLen(argument.pd) - 12]

\* C27 as stated: CR(t) is ECL(t) / Exposure(t) where the exposure is not 0,
\* it is 0 where the exposure is 0, and it is never NaN.
C27_AsStated ==
    Computed =>
        \A t \in 0..(Life - 1) :
            /\ ~IsNaN(ecl[t].CR)
            /\ ecl[t].Exposure = Zero => ecl[t].CR = Zero
            /\ (IsFinite(ecl[t].Exposure) /\ ecl[t].Exposure # Zero) =>
                   ecl[t].CR = RDiv(ecl[t].ECL, ecl[t].Exposure)

\* C28 as stated: the amortising EAD of every month is
\* max((balance_t + arrears_t) * (1 + default_penalty_pct) + default_penalty_amt, 0)
\* with the penalties of the segment's EAD assumptions.
C28_AsStated ==
    call_pc = "done" =>
        LET configured ==
                AmortisingExposureAtDefault(
                    [t \in 0..(argument.account.remaining_life - 1) |-> argument.eir],
                    argument.assumptions.fees_fixed, argument.assumptions.fees_pct,
                    argument.assumptions.prepayment_pct,
                    argument.assumptions.default_penalty_pct,
                    argument.assumptions.default_penalty_amt)
            Holds(balance) ==
                \A t \in DOMAIN balance :
                    returned[t] =
                        RMax(RAdd(RMul(balance[t],
                                       RAdd(One, argument.assumptions.default_penalty_pct)),
                                  argument.assumptions.default_penalty_amt), Zero)
        IN  Holds(AmortisingBalance(configured, argument.account))

\* C29 as stated: for every row-stochastic matrix the generator gmWA returns
\* has no negative entry off the diagonal and every row of it sums to 0.
C29_AsStated ==
    call_pc = "done" =>
        \A i \in DOMAIN returned :
            /\ RSum(returned[i]) = Zero
            /\ \A j \in DOMAIN returned : j # i => RLeq(Zero, returned[i][j])

\* C30: run writes its archive only after the forecast of every scenario and
\* step has completed; when the forecast raises, the exception leaves run and
\* the invocation leaves no file, complete or partial, at outfile.
C30_NoOutputOnFailure ==
    command = "run" =>
        /\ outfile # "absent" => (\E k \in DOMAIN log : log[k] = "compute")
        /\ (cli_pc = "exited" /\ is_valid = "True" /\ ~(\E k \in DOMAIN log : log[k] = "compute")) =>
              /\ raised # "none"
              /\ exit_code = ExitStatus(TRUE)
              /\ outfile = "absent"

\* the inputs were loaded and the forecast raised
C30_Witness ==
    /\ command = "run" /\ cli_pc = "exited"
    /\ log = <<"load", "error">>
    /\ raised = "runtime failure"
    /\ outfile = "absent"

====
